---- MODULE Spec2Model ----
(***************************************************************************)
(* Model of the InkyPi waste-pickup display: the retrying HTTP client      *)
(* (utils/api_client.py), the change-tracking state store (utils/state.py), *)
(* the schedule repository and domain models (core/waste_repository.py,    *)
(* core/models.py), the orchestrator cycle (core/app.py) and the start of  *)
(* the process (main.py).                                                  *)
(*                                                                         *)
(* Python values are modelled as tuples whose first element is the Python  *)
(* type name, so that values of different types can be compared and put in *)
(* one set.                                                                *)
(***************************************************************************)
EXTENDS Integers, Sequences, FiniteSets, TLC

VARIABLES
    \* ---- APIClient (utils/api_client.py)
    max_retries,    \* self.max_retries
    backoff_base,   \* self.backoff_base, a delay in seconds
    attempt,        \* loop variable of `for attempt in range(max_retries + 1)`
    get_pc,         \* position of the running get(): idle, sleep, request, exhausted, done
    outcomes,       \* what each session.get / raise_for_status / json() attempt did
    events,         \* the session.get and time.sleep calls, in the order made
    get_result,     \* how get() or post() ended: pending, return (with value) or raise
    base_url,       \* self.base_url: None or a str
    request,        \* the running or last call: method, endpoint and the URL built for it
    client_log,     \* the records the client logged, in order
    session_headers, \* self.session.headers: the default headers of every request
    \* ---- StateManager (utils/state.py)
    _state,         \* self._state, the in-memory value loaded from the file
    state_file,     \* what the file at self.state_file holds
    sm_op,          \* the last StateManager call: name, arguments, write outcome, result
    sm_fresh,       \* the last completed set() or clear() and whether a new StateManager was built after it
    sm_ops,         \* number of StateManager calls made
    \* ---- InkyPiApp (core/app.py)
    app_pc,         \* position in show_next_waste_pickup
    app_mode,       \* "try" inside the try block, "except" inside the except clause
    current_state,  \* the snapshot being handled, with the title and date to show
    calls,          \* the collaborator calls of the running cycle, in order
    display_image,  \* what the display shows
    today,          \* the clock: day number
    cycles,         \* number of cycles started
    config,         \* the entry point, the NUMMER environment variable and what __init__ made of it
    main_loop,      \* main() of main.py: its position, whether the hourly job is due, and counters
    \* ---- WasteRepository and the domain models (core/waste_repository.py, core/models.py)
    clock,          \* the reading of the clock during the calls
    response,       \* what client.get returns to get_schedule
    schedules,      \* what get_schedule returned
    repo_op,        \* the last call: name, argument, client.get calls made, result, log
    \* ---- Layouts (rendering/layouts.py)
    layout_op       \* a _split_text call: its arguments and what it returned

clientVars == <<max_retries, backoff_base, attempt, get_pc, outcomes, events, get_result,
                base_url, request, client_log, session_headers>>

smVars == <<_state, state_file, sm_op, sm_fresh, sm_ops>>

appVars == <<app_pc, app_mode, current_state, calls, display_image, today, cycles, config,
             main_loop>>

repoVars == <<clock, response, schedules, repo_op, layout_op>>

vars == <<max_retries, backoff_base, attempt, get_pc, outcomes, events, get_result,
          base_url, request, client_log, session_headers,
          _state, state_file, sm_op, sm_fresh, sm_ops,
          app_pc, app_mode, current_state, calls, display_image, today, cycles, config,
          main_loop,
          clock, response, schedules, repo_op, layout_op>>

----------------------------------------------------------------------------
(* Bounds *)
MaxRetriesBound == 3
MaxBackoff == 2
MaxOps == 3
MaxCycles == 2
MaxDays == 1

----------------------------------------------------------------------------
(* Python values: <<type name, payload>>.  A dict is a sequence of <<key, value>>
   pairs in insertion order with distinct keys; a str is a sequence of segments,
   each a run of ASCII text or one non-ASCII code point. *)
PyNone == <<"NoneType", "None">>
PyBool(b) == <<"bool", b>>
PyInt(n) == <<"int", n>>
PyFloat(n) == <<"float", n>>
PyStr(text) == <<"str", text>>
PyList(items) == <<"list", items>>
PyDict(pairs) == <<"dict", pairs>>
EmptyDict == PyDict(<<>>)
Ascii(run) == <<"a", run>>
Char(cp) == <<"u", cp>>
Byte(n) == <<"b", n>>
NoBody == <<"nobody">>

Unset == <<"unset">>

\* InkyPiApp of core/app.py constructed with NUMMER set
ConfigDefault ==
    [entry |-> "core/app.py", NUMMER |-> PyStr(<<Ascii("013165")>>),
     nummer |-> PyStr(<<Ascii("013165")>>), error |-> "none"]

\* main() is not running: the orchestrator is driven directly.
MainIdle ==
    [pc |-> "no_main", due |-> FALSE, triggers |-> 0, updates |-> 0, running |-> 0,
     logged |-> 0]

\* The orchestrator before its first cycle.
AppIdle ==
    /\ main_loop = MainIdle
    /\ app_pc = "idle"
    /\ app_mode = "try"
    /\ current_state = [snapshot |-> PyNone, title |-> PyNone, date |-> PyNone]
    /\ calls = <<>>
    /\ display_image = <<PyNone, PyNone>>
    /\ today = 0
    /\ cycles = 0
    /\ config = ConfigDefault

\* The repository and the models before any call.

NoCall == [name |-> "none", arg |-> PyNone, requests |-> <<>>, result |-> Unset, log |-> <<>>]

\* No _split_text call is looked at.
NoSplit == [text |-> <<>>, max_length |-> 0, pc |-> "none", result |-> <<>>]

RepoIdle ==
    /\ clock = Unset
    /\ response = PyNone
    /\ schedules = Unset
    /\ repo_op = NoCall
    /\ layout_op = NoSplit

IsDict(v) == v[1] = "dict"

DictKeys(d) == { d[2][i][1] : i \in 1..Len(d[2]) }

\* d.get(k, default)
DictGet(d, k, default) ==
    LET idx == { i \in 1..Len(d[2]) : d[2][i][1] = k }
    IN  IF idx = {} THEN default ELSE d[2][CHOOSE i \in idx : TRUE][2]

\* d[k] = v
DictSet(d, k, v) ==
    IF k \in DictKeys(d)
    THEN PyDict([i \in 1..Len(d[2]) |-> IF d[2][i][1] = k THEN <<k, v>> ELSE d[2][i]])
    ELSE PyDict(Append(d[2], <<k, v>>))

\* bool is a subclass of int, and int and float compare by value
IsNumber(v) == v[1] \in {"bool", "int", "float"}
NumberOf(v) == IF v[1] = "bool" THEN (IF v[2] THEN 1 ELSE 0) ELSE v[2]

\* Python's a == b
RECURSIVE PyEq(_, _)
PyEq(a, b) ==
    IF IsNumber(a) /\ IsNumber(b) THEN NumberOf(a) = NumberOf(b)
    ELSE IF a[1] # b[1] THEN FALSE
    ELSE IF a[1] = "list"
         THEN /\ Len(a[2]) = Len(b[2])
              /\ \A i \in 1..Len(a[2]) : PyEq(a[2][i], b[2][i])
    ELSE IF a[1] = "dict"
         THEN /\ DictKeys(a) = DictKeys(b)
              /\ \A k \in DictKeys(a) : PyEq(DictGet(a, k, PyNone), DictGet(b, k, PyNone))
    ELSE a = b

----------------------------------------------------------------------------
(* The state file: JSON text in UTF-8 *)

\* UTF-8 bytes of one non-ASCII code point
EncodeCodePoint(cp) ==
    IF cp < 2048 THEN <<Byte(192 + (cp \div 64)), Byte(128 + (cp % 64))>>
    ELSE IF cp < 65536
         THEN <<Byte(224 + (cp \div 4096)), Byte(128 + ((cp \div 64) % 64)), Byte(128 + (cp % 64))>>
    ELSE <<Byte(240 + (cp \div 262144)), Byte(128 + ((cp \div 4096) % 64)),
           Byte(128 + ((cp \div 64) % 64)), Byte(128 + (cp % 64))>>

\* encoding='utf-8' of the file written: ASCII runs are unchanged
RECURSIVE Utf8Encode(_)
Utf8Encode(text) ==
    IF text = <<>> THEN <<>>
    ELSE (IF Head(text)[1] = "a" THEN <<Head(text)>> ELSE EncodeCodePoint(Head(text)[2]))
         \o Utf8Encode(Tail(text))

\* Mutant: the file is read with a single-byte encoding (open() without encoding=).
RECURSIVE Utf8Decode_Latin1(_)
Utf8Decode_Latin1(bytes) ==
    IF bytes = <<>> THEN <<>>
    ELSE (IF Head(bytes)[1] = "a" THEN <<Head(bytes)>> ELSE <<Char(Head(bytes)[2])>>)
         \o Utf8Decode_Latin1(Tail(bytes))

\* encoding='utf-8' of the file read
RECURSIVE Utf8Decode(_)
Utf8Decode(bytes) ==
    IF bytes = <<>> THEN <<>>
    ELSE IF Head(bytes)[1] = "a" THEN <<Head(bytes)>> \o Utf8Decode(Tail(bytes))
    ELSE LET lead == Head(bytes)[2]
             n == IF lead >= 240 THEN 4 ELSE IF lead >= 224 THEN 3 ELSE 2
             cont(i) == bytes[i][2] - 128
             cp == IF n = 2 THEN (lead - 192) * 64 + cont(2)
                   ELSE IF n = 3 THEN (lead - 224) * 4096 + cont(2) * 64 + cont(3)
                   ELSE (lead - 240) * 262144 + cont(2) * 4096 + cont(3) * 64 + cont(4)
         IN  <<Char(cp)>> \o Utf8Decode(SubSeq(bytes, n + 1, Len(bytes)))

\* json.dump(value, f, indent=2, ensure_ascii=False) into a UTF-8 file: the JSON
\* document written, strings holding their characters literally as UTF-8 bytes.
RECURSIVE JsonDump(_)
JsonDump(v) ==
    CASE v[1] = "NoneType" -> <<"null">>
      [] v[1] = "bool" -> IF v[2] THEN <<"true">> ELSE <<"false">>
      [] v[1] = "int" -> <<"number", <<v[2], FALSE>> >>
      [] v[1] = "float" -> <<"number", <<v[2], TRUE>> >>
      [] v[1] = "str" -> <<"string", Utf8Encode(v[2])>>
      [] v[1] = "list" -> <<"array", [i \in 1..Len(v[2]) |-> JsonDump(v[2][i])]>>
      [] v[1] = "dict" ->
            <<"object", [i \in 1..Len(v[2]) |-> <<v[2][i][1], JsonDump(v[2][i][2])>>]>>

\* json.load(f) of a UTF-8 file: a number with a fraction part is a float
RECURSIVE JsonLoad(_)
JsonLoad(j) ==
    CASE j[1] = "null" -> PyNone
      [] j[1] = "true" -> PyBool(TRUE)
      [] j[1] = "false" -> PyBool(FALSE)
      [] j[1] = "number" -> IF j[2][2] THEN PyFloat(j[2][1]) ELSE PyInt(j[2][1])
      [] j[1] = "string" -> PyStr(Utf8Decode(j[2]))
      [] j[1] = "array" -> PyList([i \in 1..Len(j[2]) |-> JsonLoad(j[2][i])])
      [] j[1] = "object" ->
            PyDict([i \in 1..Len(j[2]) |-> <<j[2][i][1], JsonLoad(j[2][i][2])>>])

FileAbsent == [kind |-> "absent", doc |-> <<"null">>]
FileCorrupt == [kind |-> "corrupt", doc |-> <<"null">>]
FileJson(doc) == [kind |-> "json", doc |-> doc]

----------------------------------------------------------------------------
(* StateManager *)

STATE_LAST_DISPLAY == "last_display"

Keys == {STATE_LAST_DISPLAY, "test_key"}

\* "tømning" followed by a wastebasket emoji
Tomning == PyStr(<<Ascii("t"), Char(248), Ascii("mning"), Char(128465)>>)

\* JSON-compatible values passed to set, has_changed and get
Values ==
    { PyNone, PyBool(TRUE), PyInt(1), Tomning,
      PyDict(<< <<"danish", Tomning>>, <<"list", PyList(<<PyInt(1), PyFloat(2)>>)>> >>) }

\* How the write in _save_state can go: it succeeds, open() raises before the
\* file is touched, or the write raises after open() truncated the file.
WriteOutcomes == {"ok", "open_error", "write_error"}

\* Mutant: the except clause logs the error and falls off the end of the method.
_load_state_NoReturnInExcept(file) ==
    IF file.kind = "absent" THEN EmptyDict
    ELSE IF file.kind = "corrupt" THEN PyNone
    ELSE JsonLoad(file.doc)

\* Mutant: every StateManager starts with an empty map.
_load_state_StartsFresh(file) == EmptyDict

\* StateManager._load_state
_load_state(file) ==
    IF file.kind = "absent" THEN EmptyDict
    ELSE IF file.kind = "corrupt" THEN EmptyDict
    ELSE JsonLoad(file.doc)

\* The levels of the records _load_state logs (a logger being configured).
_load_state_log(file) ==
    IF file.kind = "absent" THEN <<"info">>
    ELSE IF file.kind = "corrupt" THEN <<"error">>
    ELSE <<"info">>

\* The levels of the records _save_state logs.
_save_state_log(w) == IF w = "ok" THEN <<"info">> ELSE <<"error">>

\* Mutant: the file is opened for appending, the new text follows the old one.
_save_state_Append(st, file, w) ==
    IF w = "ok"
    THEN IF file.kind = "absent" THEN FileJson(JsonDump(st)) ELSE FileCorrupt
    ELSE IF w = "open_error" THEN file
    ELSE FileCorrupt

\* StateManager._save_state: the file after saving st
_save_state(st, file, w) ==
    IF w = "ok" THEN FileJson(JsonDump(st))
    ELSE IF w = "open_error" THEN file
    ELSE FileCorrupt

Returned(v) == [kind |-> "return", value |-> v]
Raised(name) == [kind |-> "raise", value |-> <<"exception", name>>]

Op(name, key, value, w, result, log) ==
    [name |-> name, key |-> key, value |-> value, write |-> w, result |-> result,
     log |-> log,
     repeat |-> sm_op.name = name /\ sm_op.key = key /\ sm_op.value = value]

\* The files a StateManager may be constructed on.
InitialFiles ==
    { FileAbsent, FileCorrupt, FileJson(JsonDump(EmptyDict)),
      FileJson(JsonDump(PyDict(<< <<"test_key", PyInt(1)>> >>))),
      FileJson(JsonDump(PyList(<<>>))) }

\* StateManager.__init__ on a given file
StateCreated(file) ==
    /\ state_file = file
    /\ _state = _load_state(file)
    /\ sm_op = [name |-> "__init__", key |-> "", value |-> PyNone, write |-> "none",
                result |-> Returned(PyNone), log |-> _load_state_log(file),
                repeat |-> FALSE]
    /\ sm_fresh = <<"none">>
    /\ sm_ops = 0

StateIdle == StateCreated(FileAbsent)

\* A new StateManager is constructed on the same file.
SM_init ==
    /\ sm_ops < MaxOps
    /\ _state' = _load_state(state_file)
    /\ sm_op' = Op("__init__", "", PyNone, "none", Returned(PyNone),
                   _load_state_log(state_file))
    /\ sm_fresh' = IF sm_fresh[1] = "set"
                   THEN <<"reloaded", sm_fresh[2], sm_fresh[3], sm_fresh[4]>>
                   ELSE IF sm_fresh[1] = "clear"
                   THEN <<"reloaded_clear", sm_fresh[2], sm_fresh[3], sm_fresh[4]>>
                   ELSE <<"none">>
    /\ sm_ops' = sm_ops + 1
    /\ UNCHANGED state_file
    /\ UNCHANGED <<clientVars, appVars, repoVars>>

\* self._state.get(key, default)
GetValue(st, key, default) ==
    IF IsDict(st) THEN Returned(DictGet(st, key, default)) ELSE Raised("AttributeError")

\* StateManager.get
SM_get(key, default) ==
    /\ sm_ops < MaxOps
    /\ sm_op' = Op("get", key, default, "none", GetValue(_state, key, default), <<>>)
    /\ sm_ops' = sm_ops + 1
    /\ UNCHANGED <<_state, state_file, sm_fresh>>
    /\ UNCHANGED <<clientVars, appVars, repoVars>>

\* StateManager.set
SM_set(key, value, w) ==
    /\ sm_ops < MaxOps
    /\ IF IsDict(_state)
       THEN /\ _state' = DictSet(_state, key, value)
            /\ state_file' = _save_state(_state', state_file, w)
            /\ sm_op' = Op("set", key, value, w, Returned(PyNone), _save_state_log(w))
            /\ sm_fresh' = <<"set", key, value, w>>
       ELSE /\ w = "ok"
            /\ sm_op' = Op("set", key, value, "none", Raised("TypeError"), <<>>)
            /\ sm_fresh' = <<"none">>
            /\ UNCHANGED <<_state, state_file>>
    /\ sm_ops' = sm_ops + 1
    /\ UNCHANGED <<clientVars, appVars, repoVars>>

\* old_value != new_value, with old_value = self.get(key)
HasChangedResult(st, key, new_value) ==
    LET old == GetValue(st, key, PyNone)
    IN  IF old.kind = "raise" THEN old
        ELSE Returned(PyBool(~PyEq(old.value, new_value)))

\* Mutant: the compared value is remembered as a side effect.
SM_has_changed_Storing(key, new_value) ==
    /\ sm_ops < MaxOps
    /\ sm_op' = Op("has_changed", key, new_value, "none",
                   HasChangedResult(_state, key, new_value),
                   IF IsDict(_state) THEN <<"info">> ELSE <<>>)
    /\ _state' = IF IsDict(_state) THEN DictSet(_state, key, new_value) ELSE _state
    /\ sm_ops' = sm_ops + 1
    /\ UNCHANGED <<state_file, sm_fresh>>
    /\ UNCHANGED <<clientVars, appVars, repoVars>>

\* StateManager.has_changed
SM_has_changed(key, new_value) ==
    /\ sm_ops < MaxOps
    /\ sm_op' = Op("has_changed", key, new_value, "none",
                   HasChangedResult(_state, key, new_value),
                   IF IsDict(_state) THEN <<"info">> ELSE <<>>)
    /\ sm_ops' = sm_ops + 1
    /\ UNCHANGED <<_state, state_file, sm_fresh>>
    /\ UNCHANGED <<clientVars, appVars, repoVars>>

\* Mutant: the map is emptied in memory only, the file is not rewritten.
SM_clear_NoSave(w) ==
    /\ sm_ops < MaxOps
    /\ _state' = EmptyDict
    /\ sm_op' = Op("clear", "", PyNone, w, Returned(PyNone),
                   _save_state_log(w) \o <<"info">>)
    /\ sm_fresh' = <<"clear", "", PyNone, w>>
    /\ sm_ops' = sm_ops + 1
    /\ UNCHANGED state_file
    /\ UNCHANGED <<clientVars, appVars, repoVars>>

\* StateManager.clear
SM_clear(w) ==
    /\ sm_ops < MaxOps
    /\ _state' = EmptyDict
    /\ state_file' = _save_state(EmptyDict, state_file, w)
    /\ sm_op' = Op("clear", "", PyNone, w, Returned(PyNone),
                   _save_state_log(w) \o <<"info">>)
    /\ sm_fresh' = <<"clear", "", PyNone, w>>
    /\ sm_ops' = sm_ops + 1
    /\ UNCHANGED <<clientVars, appVars, repoVars>>

----------------------------------------------------------------------------

\* Decoded JSON bodies the server may answer with; a body of JSON null decodes to None.
Bodies == { PyList(<<>>), PyDict(<< <<"data", PyStr(<<Ascii("ok")>>)>> >>), PyNone }

----------------------------------------------------------------------------
(* APIClient.get *)

FailureKinds == {"Timeout", "ConnectionError", "HTTPError", "JSONDecodeError", "Exception"}

\* What one pass through the try block can do.
Outcomes == [kind : {"success"}, body : Bodies] \cup [kind : FailureKinds, body : {NoBody}]

\* Mutant: the HTTPError clause falls through to the next iteration as well.
IsTransient_HttpRetried(o) == o.kind \in {"Timeout", "ConnectionError", "HTTPError"}

\* The except clauses that log and fall through to the next loop iteration.
IsTransient(o) == o.kind \in {"Timeout", "ConnectionError"}

\* Mutant: the decoded body is logged but not returned, the loop goes on.
Handler_NoReturnOnSuccess(o) ==
    IF o.kind = "success" THEN "retry"
    ELSE IF o.kind \in {"Timeout", "ConnectionError"} THEN "retry"
    ELSE "return_none"

\* Mutant: no catch-all `except Exception` clause.
Handler_NoCatchAll(o) ==
    IF o.kind = "success" THEN "return_data"
    ELSE IF o.kind \in {"Timeout", "ConnectionError"} THEN "retry"
    ELSE IF o.kind = "Exception" THEN "propagate"
    ELSE "return_none"

\* What the try/except of one attempt does with the outcome of the attempt.
Handler(o) ==
    IF o.kind = "success" THEN "return_data"
    ELSE IF IsTransient(o) THEN "retry"
    ELSE "return_none"

\* 2 ** e
RECURSIVE Pow2(_)
Pow2(e) == IF e <= 0 THEN 1 ELSE 2 * Pow2(e - 1)

\* Mutant: exponent off by one, 2 ** attempt.
Delay_ExponentOffByOne(a) == backoff_base * Pow2(a)

\* delay = self.backoff_base * (2 ** (attempt - 1))
Delay(a) == backoff_base * Pow2(a - 1)

\* Mutant: the loop runs over range(self.max_retries + 2).
InRange_OneMore(a) == a < max_retries + 2

\* range(self.max_retries + 1) still has an element for the loop variable
InRange(a) == a < max_retries + 1

\* A str of URL text as the sequence of its "/" characters and the runs of
\* other characters between them.
DEFAULT_BASE_URL == <<"https:", "/", "/", "skoda-selvbetjeningsapi.renosyd.dk">>

\* s.rstrip("/")
RECURSIVE rstrip(_)
rstrip(s) == IF s # <<>> /\ s[Len(s)] = "/" THEN rstrip(SubSeq(s, 1, Len(s) - 1)) ELSE s

\* s.lstrip("/")
RECURSIVE lstrip(_)
lstrip(s) == IF s # <<>> /\ s[1] = "/" THEN lstrip(Tail(s)) ELSE s

\* Mutant: one trailing and one leading slash are removed (removesuffix, removeprefix).
_build_url_StripOne(base, endpoint) ==
    IF base # PyNone /\ base # <<>>
    THEN (IF base[Len(base)] = "/" THEN SubSeq(base, 1, Len(base) - 1) ELSE base)
         \o <<"/">>
         \o (IF endpoint # <<>> /\ endpoint[1] = "/" THEN Tail(endpoint) ELSE endpoint)
    ELSE endpoint

\* APIClient._build_url
_build_url(base, endpoint) ==
    IF base # PyNone /\ base # <<>>
    THEN rstrip(base) \o <<"/">> \o lstrip(endpoint)
    ELSE endpoint

\* One record of the log: the level, the fixed text of the message and the
\* values the message interpolates (Unset where it interpolates none): the URL,
\* the number of the attempt or retry, and any other value.
LogRecord(level, text, url, number, detail) ==
    [level |-> level, text |-> text, url |-> url, number |-> number, detail |-> detail]

NoRequest == [method |-> "none", endpoint |-> <<>>, url |-> <<>>]

\* The client before any call, for the given constructor arguments.
ClientCreatedAt(n, b, base) ==
    /\ max_retries = n
    /\ backoff_base = b
    /\ attempt = 0
    /\ get_pc = "idle"
    /\ outcomes = <<>>
    /\ events = <<>>
    /\ get_result = [kind |-> "pending", value |-> NoBody]
    /\ base_url = base
    /\ request = NoRequest
    /\ client_log = << LogRecord("info", "APIClient initialized", Unset, Unset, Unset) >>
    /\ session_headers = EmptyDict

\* The client of WasteRepository, which passes its default base URL.
ClientCreated(n, b) == ClientCreatedAt(n, b, DEFAULT_BASE_URL)

\* APIClient(base_url=base_url, timeout=15, logger=logger): the default retry policy
ClientDefault == ClientCreated(3, 1)

\* Mutant: the timeout record does not name the attempt.
GetRecord_TimeoutWithoutAttempt(o, a, url) ==
    CASE o.kind = "success" -> LogRecord("info", "GET successful", url, Unset, Unset)
      [] o.kind = "Timeout" -> LogRecord("error", "Request timeout", url, Unset, Unset)
      [] o.kind = "ConnectionError" -> LogRecord("error", "Connection error", url, PyInt(a + 1), Unset)
      [] o.kind = "HTTPError" -> LogRecord("error", "HTTP error", url, Unset, <<"status_code">>)
      [] o.kind = "JSONDecodeError" ->
            LogRecord("error", "Invalid JSON response from", url, Unset, Unset)
      [] OTHER -> LogRecord("error", "Unexpected error", Unset, Unset, <<"e">>)

\* The record the try/except of one attempt of get() logs for its outcome
GetRecord(o, a, url) ==
    CASE o.kind = "success" -> LogRecord("info", "GET successful", url, Unset, Unset)
      [] o.kind = "Timeout" -> LogRecord("error", "Request timeout", url, PyInt(a + 1), Unset)
      [] o.kind = "ConnectionError" -> LogRecord("error", "Connection error", url, PyInt(a + 1), Unset)
      [] o.kind = "HTTPError" -> LogRecord("error", "HTTP error", url, Unset, <<"status_code">>)
      [] o.kind = "JSONDecodeError" ->
            LogRecord("error", "Invalid JSON response from", url, Unset, Unset)
      [] OTHER -> LogRecord("error", "Unexpected error", Unset, Unset, <<"e">>)

\* get() is called: the URL is built and the loop is entered with attempt = 0.
GetCall(endpoint) ==
    /\ get_pc = "idle"
    /\ attempt' = 0
    /\ get_pc' = IF InRange(0) THEN "request" ELSE "exhausted"
    /\ request' = [method |-> "GET", endpoint |-> endpoint,
                   url |-> _build_url(base_url, endpoint)]
    /\ client_log' = Append(client_log,
                            LogRecord("info", "GET request to", request'.url, Unset, Unset))
    /\ UNCHANGED <<max_retries, backoff_base, outcomes, events, get_result,
                   base_url, session_headers>>
    /\ UNCHANGED <<smVars, appVars, repoVars>>

\* if attempt > 0: time.sleep(delay)
GetSleep ==
    /\ get_pc = "sleep"
    /\ attempt > 0
    /\ client_log' = Append(client_log,
                            LogRecord("info", "Retry", request.url, PyInt(attempt), <<"delay", Delay(attempt)>>))
    /\ events' = Append(events, <<"sleep", Delay(attempt)>>)
    /\ get_pc' = "request"
    /\ UNCHANGED <<max_retries, backoff_base, attempt, outcomes, get_result,
                   base_url, request, session_headers>>
    /\ UNCHANGED <<smVars, appVars, repoVars>>

\* The try block of one iteration and the except clause that handles it.
GetAttempt(o) ==
    /\ get_pc = "request"
    /\ events' = Append(events, <<"get", attempt + 1>>)
    /\ outcomes' = Append(outcomes, o)
    /\ client_log' = Append(client_log, GetRecord(o, attempt, request.url))
    /\ CASE Handler(o) = "return_data" ->
              /\ get_result' = [kind |-> "return", value |-> o.body]
              /\ get_pc' = "done"
              /\ UNCHANGED attempt
         [] Handler(o) = "return_none" ->
              /\ get_result' = [kind |-> "return", value |-> PyNone]
              /\ get_pc' = "done"
              /\ UNCHANGED attempt
         [] Handler(o) = "retry" ->
              /\ attempt' = attempt + 1
              /\ get_pc' = IF InRange(attempt + 1) THEN "sleep" ELSE "exhausted"
              /\ UNCHANGED get_result
         [] OTHER ->
              /\ get_result' = [kind |-> "raise", value |-> <<"exception", o.kind>>]
              /\ get_pc' = "done"
              /\ UNCHANGED attempt
    /\ UNCHANGED <<max_retries, backoff_base, base_url, request, session_headers>>
    /\ UNCHANGED <<smVars, appVars, repoVars>>

\* The loop ran out: log "All retries exhausted", return None.
GetExhausted ==
    /\ get_pc = "exhausted"
    /\ get_result' = [kind |-> "return", value |-> PyNone]
    /\ get_pc' = "done"
    /\ client_log' = Append(client_log,
                            LogRecord("error", "All retries exhausted", request.url, Unset,
                                      <<"max_retries", max_retries>>))
    /\ UNCHANGED <<max_retries, backoff_base, attempt, outcomes, events,
                   base_url, request, session_headers>>
    /\ UNCHANGED <<smVars, appVars, repoVars>>

\* Mutant: no catch-all `except Exception` clause in post().
PostHandler_NoCatchAll(o) ==
    IF o.kind = "success" THEN "return_data"
    ELSE IF o.kind \in {"Timeout", "ConnectionError", "HTTPError"} THEN "return_none"
    ELSE "propagate"

\* What the try/except of post() does with the outcome of its request: the
\* clauses for Timeout, ConnectionError and HTTPError and the catch-all, which
\* also takes a body that is not JSON, all return None.
PostHandler(o) ==
    IF o.kind = "success" THEN "return_data"
    ELSE IF o.kind \in {"Timeout", "ConnectionError", "HTTPError"} THEN "return_none"
    ELSE "return_none"

\* The record post() logs for the outcome of its request
PostRecord(o, url) ==
    CASE o.kind = "success" -> LogRecord("info", "POST successful", url, Unset, Unset)
      [] o.kind = "Timeout" -> LogRecord("error", "Request timeout", url, Unset, Unset)
      [] o.kind = "ConnectionError" -> LogRecord("error", "Connection error", url, Unset, Unset)
      [] o.kind = "HTTPError" -> LogRecord("error", "HTTP error", url, Unset, <<"status_code">>)
      [] OTHER -> LogRecord("error", "Unexpected error", Unset, Unset, <<"e">>)

\* APIClient.post: the URL is built, session.post is called once, and the
\* try/except returns the decoded body or None.
Post(endpoint, o) ==
    /\ get_pc = "idle"
    /\ request' = [method |-> "POST", endpoint |-> endpoint,
                   url |-> _build_url(base_url, endpoint)]
    /\ events' = Append(events, <<"post", 1>>)
    /\ outcomes' = Append(outcomes, o)
    /\ client_log' = client_log
                     \o << LogRecord("info", "POST request to", request'.url, Unset, Unset),
                           PostRecord(o, request'.url) >>
    /\ get_result' = CASE PostHandler(o) = "return_data" -> [kind |-> "return", value |-> o.body]
                        [] PostHandler(o) = "return_none" -> [kind |-> "return", value |-> PyNone]
                        [] OTHER -> [kind |-> "raise", value |-> <<"exception", o.kind>>]
    /\ get_pc' = "done"
    /\ UNCHANGED <<max_retries, backoff_base, attempt, base_url, session_headers>>
    /\ UNCHANGED <<smVars, appVars, repoVars>>

\* Base URLs a client is built with: none, the empty str, and the default with
\* and without trailing slashes; endpoints with and without leading slashes.
BaseUrls ==
    { PyNone, <<>>, DEFAULT_BASE_URL, DEFAULT_BASE_URL \o <<"/">>,
      DEFAULT_BASE_URL \o <<"/", "/">>, <<"/">> }

Endpoints ==
    { <<"/", "api", "/", "v1", "/", "toemmekalender">>, <<"api", "/", "v1">>,
      <<"/", "/", "api">>, <<>> }

ClientNext ==
    \/ \E endpoint \in Endpoints : GetCall(endpoint)
    \/ GetSleep
    \/ \E o \in Outcomes : GetAttempt(o)
    \/ GetExhausted

ClientInit ==
    /\ \E n \in 0..MaxRetriesBound, b \in 0..MaxBackoff, base \in BaseUrls :
          ClientCreatedAt(n, b, base)
    /\ StateIdle
    /\ AppIdle
    /\ RepoIdle

SpecClient == ClientInit /\ [][ClientNext]_vars

\* A running get() goes on: time.sleep(delay) returns after the delay, an
\* attempt ends with one of the outcomes (the request carries a timeout), and
\* the statements after the loop are executed.
SpecClientLive ==
    /\ SpecClient
    /\ WF_vars(GetSleep)
    /\ WF_vars(\E o \in Outcomes : GetAttempt(o))
    /\ WF_vars(GetExhausted)

PostNext == \E endpoint \in Endpoints, o \in Outcomes : Post(endpoint, o)

SpecPost == ClientInit /\ [][PostNext]_vars

StateInit ==
    /\ \E file \in InitialFiles : StateCreated(file)
    /\ ClientDefault
    /\ AppIdle
    /\ RepoIdle

StateNext ==
    \/ SM_init
    \/ \E key \in Keys, default \in {PyNone, PyInt(1)} : SM_get(key, default)
    \/ \E key \in Keys, value \in Values, w \in WriteOutcomes : SM_set(key, value, w)
    \/ \E key \in Keys, value \in Values : SM_has_changed(key, value)
    \/ \E w \in WriteOutcomes : SM_clear(w)

SpecState == StateInit /\ [][StateNext]_vars


----------------------------------------------------------------------------
(* InkyPiApp.show_next_waste_pickup (core/app.py) *)

Text(run) == PyStr(<<Ascii(run)>>)

\* s1 + s2 on str payloads
Concat(t1, t2) ==
    IF t1 = <<>> THEN t2
    ELSE IF t2 = <<>> THEN t1
    ELSE IF t1[Len(t1)][1] = "a" /\ t2[1][1] = "a"
         THEN SubSeq(t1, 1, Len(t1) - 1) \o <<Ascii(t1[Len(t1)][2] \o t2[1][2])>> \o Tail(t2)
    ELSE t1 \o t2

\* Mutant: the names are joined with "," alone.
Separator_CommaOnly == <<Ascii(",")>>

\* The str the names are joined with
Separator == <<Ascii(", ")>>

\* PlannedCollection.get_fractions_str: ", ".join(self.fraktioner)
RECURSIVE get_fractions_str(_)
get_fractions_str(fraktioner) ==
    IF fraktioner = <<>> THEN PyStr(<<>>)
    ELSE IF Len(fraktioner) = 1 THEN fraktioner[1]
    ELSE PyStr(Concat(Concat(fraktioner[1][2], Separator),
                      get_fractions_str(Tail(fraktioner))[2]))

\* "%02d" % n
TwoDigits(n) == IF n < 10 THEN "0" \o ToString(n) ELSE ToString(n)

\* The calendar day with number d as text; day 0 is 2026-11-10.
IsoDay(d) == "2026-11-" \o TwoDigits(10 + d)

\* strftime("%Y-%m-%d") of day number d
IsoDate(d) == Text(IsoDay(d))

\* ContentProvider.get_current_date
get_current_date(now) == IsoDate(now)

\* Mutant: the elif branch tests the day after tomorrow.
get_date_str_TomorrowOffByOne(d, now) ==
    IF d = now THEN Text("i dag")
    ELSE IF d = now + 2 THEN Text("i morgen")
    ELSE IsoDate(d)

\* PlannedCollection.get_date_str for a collection on day d read on day now
get_date_str(d, now) ==
    IF d = now THEN Text("i dag")
    ELSE IF d = now + 1 THEN Text("i morgen")
    ELSE IsoDate(d)

Restaffald == Text("Restaffald")
Papir == Text("Papir")
Glas == PyStr(<<Ascii("Glas & d"), Char(229), Ascii("ser")>>)
Metal == Text("Metal")

----------------------------------------------------------------------------
(* Domain models (core/models.py).  An object is <<class name, fields>>. *)

EmptyStr == PyStr(<<>>)

\* A datetime: calendar day, hour of the day, and whether it carries a UTC
\* offset (always +00:00 here); a naive datetime is local wall time.
DateTime(day, hour, aware) ==
    <<"datetime", [day |-> day, hour |-> hour, aware |-> aware]>>

\* One reading of the clock: datetime.now(timezone.utc) and the naive
\* datetime.now() of a device whose local time is one hour east of UTC.
Clock(utc_day, utc_hour) ==
    [utc |-> DateTime(utc_day, utc_hour, TRUE),
     local |-> DateTime(utc_day + ((utc_hour + 1) \div 24), (utc_hour + 1) % 24, FALSE)]

\* The same reading on a device whose local time is one hour west of UTC.
ClockWest(utc_day, utc_hour) ==
    [utc |-> DateTime(utc_day, utc_hour, TRUE),
     local |-> DateTime(utc_day - (IF utc_hour = 0 THEN 1 ELSE 0), (utc_hour + 23) % 24, FALSE)]

\* Clock readings: midday, the hour in which the local day is already the next
\* one, and the hour in which the local day is still the previous one.
Clocks == { Clock(0, 12), Clock(0, 23), ClockWest(0, 0) }

\* The days and hours timestamps of the API fall on.
Days == (0 - 1)..(MaxDays + 2)
Hours == {6, 18}

\* The text of an ISO 8601 timestamp; zone is "Z" or "" (no offset).
IsoTimestamp(d, h, zone) == Text(IsoDay(d) \o "T" \o TwoDigits(h) \o ":00:00" \o zone)

Timestamps == [day : Days, hour : Hours, zone : {"Z", ""}]

\* datetime.fromisoformat(s.replace("Z", "+00:00"))
fromisoformat(s) ==
    LET hits == { t \in Timestamps : IsoTimestamp(t.day, t.hour, t.zone) = s }
    IN  IF s[1] # "str" THEN Raised("AttributeError")
        ELSE IF hits = {} THEN Raised("ValueError")
        ELSE LET t == CHOOSE t \in hits : TRUE
             IN  Returned(DateTime(t.day, t.hour, t.zone = "Z"))

\* try: fromisoformat(...) except Exception: datetime.now()
ParseOrNow(s, now) ==
    IF fromisoformat(s).kind = "return" THEN fromisoformat(s).value ELSE now.local

\* Address.from_dict (of its twelve fields: navn, kommunenummer, breddegrad)
Address_from_dict(data) ==
    IF ~IsDict(data) THEN Raised("AttributeError")
    ELSE Returned(<<"Address", [navn |-> DictGet(data, "navn", EmptyStr),
                                kommunenummer |-> DictGet(data, "kommunenummer", PyInt(0)),
                                breddegrad |-> DictGet(data, "breddegrad", PyFloat(0))]>>)

\* Standplads.from_dict (of its eight fields: nummer, beskrivelse, adresse, sidstændret)
Standplads_from_dict(data, now) ==
    IF ~IsDict(data) THEN Raised("AttributeError")
    ELSE LET adresse == Address_from_dict(DictGet(data, "adresse", EmptyDict))
         IN  IF adresse.kind = "raise" THEN adresse
             ELSE Returned(<<"Standplads",
                             [nummer |-> DictGet(data, "nummer", EmptyStr),
                              beskrivelse |-> DictGet(data, "beskrivelse", PyNone),
                              adresse |-> adresse.value,
                              sidstaendret |->
                                  ParseOrNow(DictGet(data, "sidstændret", EmptyStr), now)]>>)

\* Mutant: an unparsable date is not caught.
PlannedCollection_from_dict_DateRaises(data, now) ==
    IF ~IsDict(data) THEN Raised("AttributeError")
    ELSE IF fromisoformat(DictGet(data, "dato", EmptyStr)).kind = "raise"
    THEN fromisoformat(DictGet(data, "dato", EmptyStr))
    ELSE Returned(<<"PlannedCollection",
                    [dato |-> ParseOrNow(DictGet(data, "dato", EmptyStr), now),
                     fraktioner |-> DictGet(data, "fraktioner", PyList(<<>>))]>>)

\* PlannedCollection.from_dict
PlannedCollection_from_dict(data, now) ==
    IF ~IsDict(data) THEN Raised("AttributeError")
    ELSE Returned(<<"PlannedCollection",
                    [dato |-> ParseOrNow(DictGet(data, "dato", EmptyStr), now),
                     fraktioner |-> DictGet(data, "fraktioner", PyList(<<>>))]>>)

\* The items `for p in v` yields, or a TypeError for a value that is not iterable.
Iterate(v) ==
    IF v[1] = "list" THEN Returned(v[2])
    ELSE IF v[1] = "dict" THEN Returned([i \in 1..Len(v[2]) |-> Text(v[2][i][1])])
    ELSE IF v[1] = "str" THEN Returned([i \in 1..Len(v[2]) |-> PyStr(<<v[2][i]>>)])
    ELSE Raised("TypeError")

\* WasteSchedule.from_dict
WasteSchedule_from_dict(data, now) ==
    IF ~IsDict(data) THEN Raised("AttributeError")
    ELSE LET standplads == Standplads_from_dict(DictGet(data, "standplads", EmptyDict), now)
             planlagt == Iterate(DictGet(data, "planlagtetømninger", PyList(<<>>)))
             parsed == [i \in 1..Len(planlagt.value) |->
                           PlannedCollection_from_dict(planlagt.value[i], now)]
         IN  IF standplads.kind = "raise" THEN standplads
             ELSE IF planlagt.kind = "raise" THEN planlagt
             ELSE IF \E i \in 1..Len(parsed) : parsed[i].kind = "raise"
             THEN Raised("AttributeError")
             ELSE Returned(<<"WasteSchedule",
                             [standplads |-> standplads.value,
                              planlagtetoemninger |->
                                  [i \in 1..Len(parsed) |-> parsed[i].value]]>>)

\* The position of a datetime on its own time line (aware: UTC, naive: wall time)
Hour(dt) == (dt[2].day * 24) + dt[2].hour

\* c.dato.date()
DateOf(c) == c[2].dato[2].day

\* Mutant: a collection counts as upcoming only from the current moment on.
Upcoming_FromNow(schedule, now) ==
    SelectSeq(schedule[2].planlagtetoemninger,
              LAMBDA c : Hour(c[2].dato) >= Hour(now.utc))

\* [c for c in self.planlagtetømninger if c.dato.date() >= today], today the UTC date
Upcoming(schedule, now) ==
    SelectSeq(schedule[2].planlagtetoemninger, LAMBDA c : DateOf(c) >= now.utc[2].day)

\* min(upcoming, key=lambda c: c.dato): the first of the entries with the least
\* dato; comparing a naive with an aware datetime raises TypeError.
MinByDato(upcoming) ==
    IF \E i, j \in 1..Len(upcoming) : upcoming[i][2].dato[2].aware # upcoming[j][2].dato[2].aware
    THEN Raised("TypeError")
    ELSE LET least == { i \in 1..Len(upcoming) :
                          \A j \in 1..Len(upcoming) :
                              Hour(upcoming[i][2].dato) <= Hour(upcoming[j][2].dato) }
         IN  Returned(upcoming[CHOOSE i \in least : \A j \in least : i <= j])

\* WasteSchedule.get_next_collection
get_next_collection(schedule, now) ==
    IF Upcoming(schedule, now) = <<>> THEN Returned(PyNone)
    ELSE MinByDato(Upcoming(schedule, now))

\* PlannedCollection.get_date_str read at clock reading now
PlannedCollection_get_date_str(c, now) == get_date_str(DateOf(c), now.local[2].day)

----------------------------------------------------------------------------
(* WasteRepository.get_schedule (core/waste_repository.py) *)

API_VERSION == "v1"

\* The client.get call of get_schedule
ScheduleRequest(nummer) ==
    [endpoint |-> "/api/" \o API_VERSION \o "/toemmekalender",
     params |-> PyDict(<< <<"nummer", nummer>> >>)]

\* [WasteSchedule.from_dict(item) for item in response_data]
ParsedItems(response_data, now) ==
    [i \in 1..Len(response_data[2]) |-> WasteSchedule_from_dict(response_data[2][i], now)]

\* Mutant: the list comprehension is outside the try block.
get_schedule_ParseOutsideTry(response_data, now) ==
    IF response_data = PyNone
    THEN [result |-> Returned(PyNone),
          log |-> << <<"error", "Failed to fetch waste schedule">> >>]
    ELSE IF response_data[1] # "list"
    THEN [result |-> Returned(PyNone),
          log |-> << <<"error", "Unexpected response format - expected list">> >>]
    ELSE IF \E i \in 1..Len(response_data[2]) : ParsedItems(response_data, now)[i].kind = "raise"
    THEN [result |-> Raised("AttributeError"), log |-> <<>>]
    ELSE [result |-> Returned(PyList([i \in 1..Len(response_data[2]) |->
                                         ParsedItems(response_data, now)[i].value])),
          log |-> << <<"info", "Successfully parsed waste schedules">> >>]

\* WasteRepository.get_schedule from the value client.get returned: the result
\* and the records logged after the call of client.get.
get_schedule(response_data, now) ==
    IF response_data = PyNone
    THEN [result |-> Returned(PyNone),
          log |-> << <<"error", "Failed to fetch waste schedule">> >>]
    ELSE IF response_data[1] # "list"
    THEN [result |-> Returned(PyNone),
          log |-> << <<"error", "Unexpected response format - expected list">> >>]
    ELSE IF \E i \in 1..Len(response_data[2]) : ParsedItems(response_data, now)[i].kind = "raise"
    THEN [result |-> Returned(PyNone),
          log |-> << <<"error", "Error parsing waste schedule data">> >>]
    ELSE [result |-> Returned(PyList([i \in 1..Len(response_data[2]) |->
                                         ParsedItems(response_data, now)[i].value])),
          log |-> << <<"info", "Successfully parsed waste schedules">> >>]

----------------------------------------------------------------------------
(* Inputs of the repository and the models *)

MaxCollections == 2
MaxSchedules == 2

SeqsUpTo(S, n) == UNION { [1..k -> S] : k \in 0..n }

\* One entry of "planlagtetømninger" as decoded from the API's JSON
CollectionItem(dato, fraktioner) ==
    PyDict(<< <<"dato", dato>>, <<"fraktioner", PyList(fraktioner)>> >>)

Yesterday == CollectionItem(IsoTimestamp(0 - 1, 18, "Z"), <<Restaffald>>)
EarlyToday == CollectionItem(IsoTimestamp(0, 6, "Z"), <<Glas>>)
Tomorrow == CollectionItem(IsoTimestamp(1, 6, "Z"), <<Restaffald, Papir>>)
TomorrowToo == CollectionItem(IsoTimestamp(1, 6, "Z"), <<Glas>>)
InTwoDays == CollectionItem(IsoTimestamp(2, 18, "Z"), <<Papir>>)
NoOffset == CollectionItem(IsoTimestamp(2, 6, ""), <<Restaffald>>)
Duplicates == CollectionItem(IsoTimestamp(1, 18, "Z"), <<Papir, Glas, Papir>>)
BadDate == CollectionItem(Text("not a date"), <<Glas>>)
NullDate == PyDict(<< <<"dato", PyNone>> >>)

\* The response of the test fixtures: two upcoming entries, the earlier one
\* first (there 30 and 60 days ahead, here two and three days after day 0).
SampleFirst == CollectionItem(IsoTimestamp(2, 6, "Z"), <<Restaffald, Papir>>)
SampleSecond == CollectionItem(IsoTimestamp(3, 6, "Z"), <<Glas, Metal>>)

CollectionItems ==
    { Yesterday, EarlyToday, Tomorrow, TomorrowToo, InTwoDays, NoOffset, Duplicates, BadDate,
      NullDate }

StandpladsItem ==
    PyDict(<< <<"nummer", Text("013165")>>,
              <<"adresse", PyDict(<< <<"navn", Text("Testvej 1")>>,
                                     <<"kommunenummer", PyInt(746)>> >>)>>,
              <<"sidstændret", IsoTimestamp(0 - 1, 6, "Z")>> >>)

\* One element of the response array
ScheduleItem(items) ==
    PyDict(<< <<"standplads", StandpladsItem>>, <<"planlagtetømninger", PyList(items)>> >>)

\* Elements with every field, with missing fields, and with fields that are
\* null or of the wrong type.
PartialItems ==
    { PyDict(<< <<"invalid", Text("data")>> >>),
      PyDict(<< <<"standplads", PyDict(<< <<"nummer", PyInt(13165)>>,
                                          <<"sidstændret", PyInt(5)>> >>)>>,
                <<"planlagtetømninger", PyList(<<NullDate, BadDate>>)>> >>) }

BrokenItems ==
    { Text("x"),
      PyNone,
      PyDict(<< <<"standplads", PyNone>> >>),
      PyDict(<< <<"standplads", PyDict(<< <<"adresse", PyNone>> >>)>> >>),
      PyDict(<< <<"planlagtetømninger", PyNone>> >>),
      ScheduleItem(<<Tomorrow, Text("x")>>) }

Elements == { ScheduleItem(<<InTwoDays, Tomorrow>>), ScheduleItem(<<>>) }
            \cup PartialItems \cup BrokenItems

\* What client.get may return to get_schedule: None, a decoded body that is not
\* an array, or an array.
Responses ==
    { PyNone, PyDict(<< <<"unexpected", Text("format")>> >>), Text("maintenance") }
    \cup { PyList(items) : items \in SeqsUpTo(Elements, MaxSchedules) }
    \cup { PyList(<<ScheduleItem(items)>>) : items \in SeqsUpTo(CollectionItems, MaxCollections) }

Nummers == { Text("013165"), EmptyStr }

sample_api_response == PyList(<<ScheduleItem(<<SampleFirst, SampleSecond>>)>>)

----------------------------------------------------------------------------
(* Calls of the repository and of the models *)

RepoInit ==
    /\ ClientDefault
    /\ StateIdle
    /\ AppIdle
    /\ clock \in Clocks
    /\ response \in Responses
    /\ schedules = Unset
    /\ repo_op = NoCall
    /\ layout_op = NoSplit

\* self.waste_repo.get_schedule(nummer)
RepoGetSchedule(nummer) ==
    /\ schedules = Unset
    /\ repo_op' = [name |-> "get_schedule", arg |-> nummer,
                   requests |-> <<ScheduleRequest(nummer)>>,
                   result |-> get_schedule(response, clock).result,
                   log |-> get_schedule(response, clock).log]
    /\ schedules' = IF repo_op'.result.kind = "return" THEN repo_op'.result.value
                    ELSE <<"raised">>
    /\ UNCHANGED <<clock, response, layout_op>>
    /\ UNCHANGED <<clientVars, smVars, appVars>>

\* What an APIClient object has: the attributes __init__ sets and the methods
\* of the class.
APIClient_attributes ==
    { "base_url", "timeout", "max_retries", "backoff_base", "logger", "session",
      "get", "post", "set_header", "set_auth", "_build_url", "_log_info", "_log_error",
      "close" }

\* APIClient.set_header: self.session.headers[key] = value
set_header(headers, key, value) == DictSet(headers, key, value)

\* Bound on the set_api_key calls of one repository
MaxHeaderCalls == 1

Tokens == { Text("token123") }
ApiKeys == { Text("test-key") }

\* WasteRepository.set_api_key: self.client.set_header('X-API-Key', api_key)
RepoSetApiKey(api_key) ==
    /\ Len(client_log) <= MaxHeaderCalls
    /\ session_headers' = set_header(session_headers, "X-API-Key", api_key)
    /\ client_log' = Append(client_log, LogRecord("info", "Set header", Unset, Unset, <<"X-API-Key">>))
    /\ repo_op' = [name |-> "set_api_key", arg |-> api_key, requests |-> <<>>,
                   result |-> Returned(PyNone),
                   log |-> << <<"info", "API key configured">> >>]
    /\ UNCHANGED <<clock, response, schedules, layout_op>>
    /\ UNCHANGED <<max_retries, backoff_base, attempt, get_pc, outcomes, events, get_result,
                   base_url, request>>
    /\ UNCHANGED <<smVars, appVars>>

\* WasteRepository.set_bearer_token: self.client.set_bearer_token(token); looking
\* up an attribute the client does not have raises AttributeError.
RepoSetBearerToken(token) ==
    /\ IF "set_bearer_token" \in APIClient_attributes
       THEN /\ session_headers' =
                   set_header(session_headers, "Authorization",
                              PyStr(Concat(<<Ascii("Bearer ")>>, token[2])))
            /\ repo_op' = [name |-> "set_bearer_token", arg |-> token, requests |-> <<>>,
                           result |-> Returned(PyNone),
                           log |-> << <<"info", "Bearer token configured">> >>]
       ELSE /\ repo_op' = [name |-> "set_bearer_token", arg |-> token, requests |-> <<>>,
                           result |-> Raised("AttributeError"), log |-> <<>>]
            /\ UNCHANGED session_headers
    /\ UNCHANGED <<clock, response, schedules, layout_op>>
    /\ UNCHANGED <<max_retries, backoff_base, attempt, get_pc, outcomes, events, get_result,
                   base_url, request, client_log>>
    /\ UNCHANGED <<smVars, appVars>>

IsList(v) == v[1] = "list"

\* schedules[i].get_next_collection()
ModelGetNextCollection(i) ==
    /\ IsList(schedules)
    /\ i \in 1..Len(schedules[2])
    /\ repo_op' = [name |-> "get_next_collection", arg |-> PyInt(i), requests |-> <<>>,
                   result |-> get_next_collection(schedules[2][i], clock), log |-> <<>>]
    /\ UNCHANGED <<clock, response, schedules, layout_op>>
    /\ UNCHANGED <<clientVars, smVars, appVars>>

\* schedules[i].planlagtetømninger[j].get_date_str()
ModelGetDateStr(i, j) ==
    /\ IsList(schedules)
    /\ i \in 1..Len(schedules[2])
    /\ j \in 1..Len(schedules[2][i][2].planlagtetoemninger)
    /\ repo_op' = [name |-> "get_date_str", arg |-> <<PyInt(i), PyInt(j)>>, requests |-> <<>>,
                   result |-> Returned(PlannedCollection_get_date_str(
                                  schedules[2][i][2].planlagtetoemninger[j], clock)),
                   log |-> <<>>]
    /\ UNCHANGED <<clock, response, schedules, layout_op>>
    /\ UNCHANGED <<clientVars, smVars, appVars>>

\* schedules[i].planlagtetømninger[j].get_fractions_str()
ModelGetFractionsStr(i, j) ==
    /\ IsList(schedules)
    /\ i \in 1..Len(schedules[2])
    /\ j \in 1..Len(schedules[2][i][2].planlagtetoemninger)
    /\ repo_op' = [name |-> "get_fractions_str", arg |-> <<PyInt(i), PyInt(j)>>,
                   requests |-> <<>>,
                   result |-> Returned(get_fractions_str(
                                  schedules[2][i][2].planlagtetoemninger[j][2].fraktioner[2])),
                   log |-> <<>>]
    /\ UNCHANGED <<clock, response, schedules, layout_op>>
    /\ UNCHANGED <<clientVars, smVars, appVars>>

\* The dates get_collections_for_date is asked for: midnight and evening of
\* the days around the clock reading, with and without a time zone.
Targets == { DateTime(d, h, a) : d \in 0..MaxDays + 1, h \in {0, 18}, a \in BOOLEAN }

\* Mutant: an entry matches when it lies on the target day or later.
get_collections_for_date_FromDate(schedule, target_date) ==
    SelectSeq(schedule[2].planlagtetoemninger,
              LAMBDA c : c[2].dato[2].day >= target_date[2].day)

\* WasteSchedule.get_collections_for_date: the entries whose date formats to
\* the same "%Y-%m-%d" text as target_date
get_collections_for_date(schedule, target_date) ==
    SelectSeq(schedule[2].planlagtetoemninger,
              LAMBDA c : IsoDate(c[2].dato[2].day) = IsoDate(target_date[2].day))

\* schedules[i].get_collections_for_date(target_date)
ModelGetCollectionsForDate(i, target_date) ==
    /\ IsList(schedules)
    /\ i \in 1..Len(schedules[2])
    /\ repo_op' = [name |-> "get_collections_for_date", arg |-> <<PyInt(i), target_date>>,
                   requests |-> <<>>,
                   result |-> Returned(get_collections_for_date(schedules[2][i], target_date)),
                   log |-> <<>>]
    /\ UNCHANGED <<clock, response, schedules, layout_op>>
    /\ UNCHANGED <<clientVars, smVars, appVars>>

RepoNext ==
    \/ \E nummer \in Nummers : RepoGetSchedule(nummer)
    \/ \E i \in 1..MaxSchedules, target_date \in Targets :
          ModelGetCollectionsForDate(i, target_date)
    \/ \E i \in 1..MaxSchedules : ModelGetNextCollection(i)
    \/ \E i \in 1..MaxSchedules, j \in 1..MaxCollections : ModelGetDateStr(i, j)
    \/ \E i \in 1..MaxSchedules, j \in 1..MaxCollections : ModelGetFractionsStr(i, j)
    \/ \E api_key \in ApiKeys : RepoSetApiKey(api_key)
    \/ \E token \in Tokens : RepoSetBearerToken(token)

SpecRepo == RepoInit /\ [][RepoNext]_vars

----------------------------------------------------------------------------
(* Layouts._split_text (rendering/layouts.py).  A text is the sequence of its
   characters. *)

\* Bounds on the text and on max_length
MaxTextLen == 5
MaxLineLen == 3

\* A letter, the comma and the blank
Alphabet == {"a", ",", " "}

\* s.split(sep) for a one-character sep: the runs between the separators, the
\* empty ones included
RECURSIVE SplitAt(_, _)
SplitAt(s, sep) ==
    IF \A i \in 1..Len(s) : s[i] # sep THEN <<s>>
    ELSE LET k == CHOOSE i \in 1..Len(s) : s[i] = sep /\ \A j \in 1..(i - 1) : s[j] # sep
         IN  <<SubSeq(s, 1, k - 1)>> \o SplitAt(SubSeq(s, k + 1, Len(s)), sep)

\* s.strip(): without the blanks at both ends
strip(s) ==
    LET kept == { i \in 1..Len(s) : s[i] # " " }
    IN  IF kept = {} THEN <<>>
        ELSE SubSeq(s, CHOOSE i \in kept : \A j \in kept : i <= j,
                       CHOOSE i \in kept : \A j \in kept : i >= j)

\* s.split(): the runs of characters between blanks, none of them empty
split(s) == SelectSeq(SplitAt(s, " "), LAMBDA w : w # <<>>)

\* len(line) <= max_length * 1.5
Fits(line, max_length) == 2 * Len(line) <= 3 * max_length

\* The two loops of _split_text (over the comma-separated parts, joined with
\* ", ", and over the words, joined with " "): a part joins current_line while
\* the joined line fits, else current_line is completed; then the last
\* current_line is appended unless it is empty.
RECURSIVE FillLines(_, _, _, _, _)
FillLines(parts, joiner, max_length, lines, current_line) ==
    IF parts = <<>>
    THEN IF current_line # <<>> THEN Append(lines, current_line) ELSE lines
    ELSE IF current_line = <<>>
    THEN FillLines(Tail(parts), joiner, max_length, lines, Head(parts))
    ELSE IF Fits(current_line \o joiner \o Head(parts), max_length)
    THEN FillLines(Tail(parts), joiner, max_length, lines,
                   current_line \o joiner \o Head(parts))
    ELSE FillLines(Tail(parts), joiner, max_length, Append(lines, current_line), Head(parts))

\* Layouts._split_text
_split_text(text, max_length) ==
    IF Len(text) <= max_length THEN <<text>>
    ELSE LET parts == [i \in 1..Len(SplitAt(text, ",")) |-> strip(SplitAt(text, ",")[i])]
             lines == FillLines(parts, <<",", " ">>, max_length, <<>>, <<>>)
         IN  IF /\ \E i \in 1..Len(text) : text[i] = ","
                /\ Len(lines) <= 3
                /\ \A i \in 1..Len(lines) : 5 * Len(lines[i]) <= 9 * max_length
             THEN lines
             ELSE FillLines(split(text), <<" ">>, max_length, <<>>, <<>>)

\* A Layouts object and the arguments of one _split_text call
LayoutsInit ==
    /\ ClientDefault
    /\ StateIdle
    /\ AppIdle
    /\ clock = Unset
    /\ response = PyNone
    /\ schedules = Unset
    /\ repo_op = NoCall
    /\ layout_op \in [text : SeqsUpTo(Alphabet, MaxTextLen), max_length : 1..MaxLineLen,
                       pc : {"call"}, result : {<<>>}]

\* self._split_text(text, max_length)
SplitText ==
    /\ layout_op.pc = "call"
    /\ layout_op' = [layout_op EXCEPT
                        !.pc = "done",
                        !.result = _split_text(layout_op.text, layout_op.max_length)]
    /\ UNCHANGED <<clock, response, schedules, repo_op>>
    /\ UNCHANGED <<clientVars, smVars, appVars>>

LayoutsNext == SplitText

SpecLayouts == LayoutsInit /\ [][LayoutsNext]_vars

----------------------------------------------------------------------------
(* The orchestrator cycle: show_next_waste_pickup of core/app.py and, where the
   entry point is main.py, of main.py *)

\* What client.get returns in a cycle: no result, an empty array, an array that
\* cannot be parsed, and arrays whose first schedule has no entry, only a past
\* entry, entries of today, tomorrow or later, or an entry with an unparsable date.
AppResponses ==
    { PyNone,
      PyList(<<>>),
      PyList(<<Text("x")>>),
      PyList(<<ScheduleItem(<<>>)>>),
      PyList(<<ScheduleItem(<<Yesterday>>), ScheduleItem(<<Tomorrow>>)>>),
      PyList(<<ScheduleItem(<<InTwoDays, EarlyToday>>)>>),
      PyList(<<ScheduleItem(<<Tomorrow>>), ScheduleItem(<<>>)>>),
      PyList(<<ScheduleItem(<<InTwoDays>>)>>),
      PyList(<<ScheduleItem(<<BadDate, InTwoDays>>)>>),
      sample_api_response }

\* The clock as a cycle reads it: midday of the current day.
AppClock == Clock(today, 12)

\* `not v` for None and for a list
Falsy(v) == v = PyNone \/ v = PyList(<<>>)

\* str(e) of the exceptions the try block meets
Message(exception) ==
    IF exception = Raised("TypeError").value
    THEN "can't compare offset-naive and offset-aware datetimes"
    ELSE exception[2]

\* Mutant: the no_data snapshot carries no date.
NoDataState_WithoutDate(now) == PyDict(<< <<"status", Text("no_data")>> >>)

\* The snapshot built for a result, with the title and date to show for it.
NoDataState(now) ==
    PyDict(<< <<"status", Text("no_data")>>, <<"date", get_current_date(now)>> >>)

NoPickupsState(now) ==
    PyDict(<< <<"status", Text("no_pickups")>>, <<"date", get_current_date(now)>> >>)

\* Mutant: collection_date is always the date as YYYY-MM-DD.
SuccessState_IsoDateOnly(fraktioner, d, now) ==
    PyDict(<< <<"status", Text("success")>>,
              <<"waste_types", get_fractions_str(fraktioner)>>,
              <<"collection_date", IsoDate(d)>>,
              <<"fractions", PyList(fraktioner)>> >>)

SuccessState(fraktioner, d, now) ==
    PyDict(<< <<"status", Text("success")>>,
              <<"waste_types", get_fractions_str(fraktioner)>>,
              <<"collection_date", get_date_str(d, now)>>,
              <<"fractions", PyList(fraktioner)>> >>)

ErrorState(message, now) ==
    PyDict(<< <<"status", Text("error")>>, <<"message", Text(message)>>,
              <<"date", get_current_date(now)>> >>)

Shown(snap, t, d) == [snapshot |-> snap, title |-> t, date |-> d]

\* Mutant: the first schedule that has a next collection is used, and an empty
\* list counts as a schedule without collections.
Computed_AnySchedule(r, now) ==
    LET day == now.local[2].day
        found == IF r = PyNone THEN {}
                 ELSE { i \in 1..Len(r[2]) :
                          get_next_collection(r[2][i], now).kind = "raise"
                          \/ get_next_collection(r[2][i], now).value # PyNone }
    IN  IF r = PyNone
        THEN Returned(Shown(NoDataState(day), Text("No Data"),
                            DictGet(NoDataState(day), "date", get_current_date(day))))
        ELSE IF found = {}
        THEN Returned(Shown(NoPickupsState(day), Text("No Pickups"),
                            DictGet(NoPickupsState(day), "date", get_current_date(day))))
        ELSE LET next_collection ==
                     get_next_collection(r[2][CHOOSE i \in found : \A j \in found : i <= j], now)
             IN  IF next_collection.kind = "raise" THEN next_collection
                 ELSE LET c == next_collection.value
                      IN  Returned(Shown(SuccessState(c[2].fraktioner[2], DateOf(c), day),
                                         get_fractions_str(c[2].fraktioner[2]),
                                         PlannedCollection_get_date_str(c, now)))

\* The snapshot, title and date text the try block computes from the value
\* get_schedule returned, or the exception get_next_collection raises.
Computed(r, now) ==
    LET day == now.local[2].day
    IN  IF Falsy(r)
        THEN Returned(Shown(NoDataState(day), Text("No Data"),
                            DictGet(NoDataState(day), "date", get_current_date(day))))
        ELSE LET next_collection == get_next_collection(r[2][1], now)
             IN  IF next_collection.kind = "raise" THEN next_collection
                 ELSE IF next_collection.value = PyNone
                 THEN Returned(Shown(NoPickupsState(day), Text("No Pickups"),
                                     DictGet(NoPickupsState(day), "date",
                                             get_current_date(day))))
                 ELSE LET c == next_collection.value
                      IN  Returned(Shown(SuccessState(c[2].fraktioner[2], DateOf(c), day),
                                         get_fractions_str(c[2].fraktioner[2]),
                                         PlannedCollection_get_date_str(c, now)))

\* The except clause: the error snapshot, shown with the title "Error".
Handled(message, now) ==
    Shown(ErrorState(message, now), Text("Error"),
          DictGet(ErrorState(message, now), "date", get_current_date(now)))

\* main.py, InkyPiApp.show_next_waste_pickup: the snapshot, title and date text
\* its try block computes from the value get_schedule returned.
Main_Computed(r, now) ==
    LET day == now.local[2].day
    IN  IF Falsy(r)
        THEN LET error_state == PyDict(<< <<"status", Text("no_data")>>,
                                          <<"date", get_current_date(day)>> >>)
             IN  Returned(Shown(error_state, Text("No Data"),
                                DictGet(error_state, "date", Unset)))
        ELSE LET next_collection == get_next_collection(r[2][1], now)
             IN  IF next_collection.kind = "raise" THEN next_collection
                 ELSE IF next_collection.value = PyNone
                 THEN LET error_state == PyDict(<< <<"status", Text("no_pickups")>>,
                                                   <<"date", get_current_date(day)>> >>)
                      IN  Returned(Shown(error_state, Text("No Pickups"),
                                         DictGet(error_state, "date", Unset)))
                 ELSE LET c == next_collection.value
                          waste_types == get_fractions_str(c[2].fraktioner[2])
                          collection_date == PlannedCollection_get_date_str(c, now)
                      IN  Returned(Shown(PyDict(<< <<"status", Text("success")>>,
                                                   <<"waste_types", waste_types>>,
                                                   <<"collection_date", collection_date>>,
                                                   <<"fractions", c[2].fraktioner>> >>),
                                         waste_types, collection_date))

\* Mutant: the error snapshot of main.py carries no message.
Main_Handled_NoMessage(message, now) ==
    LET error_state == PyDict(<< <<"status", Text("error")>>,
                                 <<"date", get_current_date(now)>> >>)
    IN  Shown(error_state, Text("Error"), DictGet(error_state, "date", Unset))

\* main.py: the except clause of show_next_waste_pickup
Main_Handled(message, now) ==
    LET error_state == PyDict(<< <<"status", Text("error")>>,
                                 <<"message", Text(message)>>,
                                 <<"date", get_current_date(now)>> >>)
    IN  Shown(error_state, Text("Error"), DictGet(error_state, "date", Unset))

\* main.py: if self.state.has_changed('last_display', ...): show and set; else: log
Main_AfterCompare(changed) == IF changed THEN "title_and_date" ELSE "done"

\* main.py: show_title_and_date (layouts.title_and_date, display.set_border,
\* display.show), followed by self.state.set('last_display', ...)
Main_AfterCall(pc) ==
    CASE pc = "title_and_date" -> "set_border"
      [] pc = "set_border" -> "show"
      [] pc = "show" -> "set"
      [] pc = "set" -> "done"

\* The key main.py stores the snapshot under
Main_last_display == "last_display"

\* An exception raised at the current position: inside the try block control
\* goes to the except clause, inside the except clause it leaves the method.
AppRaise(message, entry) ==
    IF app_mode = "try"
    THEN /\ app_mode' = "except"
         /\ current_state' = IF config.entry = "main.py" THEN Main_Handled(message, today)
                              ELSE Handled(message, today)
         /\ app_pc' = "compare"
         /\ calls' = Append(calls, entry)
    ELSE /\ app_pc' = "raised"
         /\ calls' = Append(calls, entry)
         /\ UNCHANGED <<app_mode, current_state>>

\* show_next_waste_pickup is called.
AppStart ==
    /\ app_pc \in {"idle", "done", "raised"}
    /\ cycles < MaxCycles
    /\ cycles' = cycles + 1
    /\ app_pc' = "fetch"
    /\ app_mode' = "try"
    /\ calls' = <<>>
    /\ current_state' = Shown(PyNone, PyNone, PyNone)
    /\ UNCHANGED <<today, display_image>>
    /\ UNCHANGED <<clientVars, smVars, repoVars, config, main_loop>>

\* get_schedule, which returns r when client.get returns response_data, then
\* get_next_collection and the formatting of the snapshot.
AppFetch(response_data) ==
    /\ app_pc = "fetch"
    /\ LET r == get_schedule(response_data, AppClock).result.value
           computed == IF config.entry = "main.py" THEN Main_Computed(r, AppClock)
                       ELSE Computed(r, AppClock)
       IN  IF computed.kind = "raise"
           THEN AppRaise(Message(computed.value), <<"get_schedule", r, "ok">>)
           ELSE /\ current_state' = computed.value
                /\ app_pc' = "compare"
                /\ calls' = Append(calls, <<"get_schedule", r, "ok">>)
                /\ UNCHANGED app_mode
    /\ UNCHANGED <<today, cycles, display_image>>
    /\ UNCHANGED <<clientVars, smVars, repoVars, config, main_loop>>

\* Mutant: the comparison result is ignored, the display is always redrawn.
AfterCompare_AlwaysRedraw(changed) == "title_and_date"

\* if self.state.has_changed(...): show and set; else: log only
AfterCompare(changed) == IF changed THEN "title_and_date" ELSE "done"

\* self.state.has_changed(STATE_LAST_DISPLAY, snapshot)
AppCompare ==
    /\ app_pc = "compare"
    /\ LET key == IF config.entry = "main.py" THEN Main_last_display
                  ELSE STATE_LAST_DISPLAY
           res == HasChangedResult(_state, key, current_state.snapshot)
       IN  IF res.kind = "raise"
           THEN AppRaise("'list' object has no attribute 'get'",
                         <<"has_changed", current_state.snapshot, "raise">>)
           ELSE /\ app_pc' = IF config.entry = "main.py"
                              THEN Main_AfterCompare(res.value[2])
                              ELSE AfterCompare(res.value[2])
                /\ calls' = Append(calls, <<"has_changed", current_state.snapshot,
                                            IF res.value[2] THEN "True" ELSE "False">>)
                /\ UNCHANGED <<app_mode, current_state>>
    /\ UNCHANGED <<today, cycles, display_image>>
    /\ UNCHANGED <<clientVars, smVars, repoVars, config, main_loop>>

\* Mutant: the snapshot is persisted before the image is shown.
AfterCall_PersistFirst(pc) ==
    CASE pc = "title_and_date" -> "set"
      [] pc = "set" -> "set_border"
      [] pc = "set_border" -> "show"
      [] pc = "show" -> "done"

\* The statement that follows each call of the update.
AfterCall(pc) ==
    CASE pc = "title_and_date" -> "set_border"
      [] pc = "set_border" -> "show"
      [] pc = "show" -> "set"
      [] pc = "set" -> "done"

\* show_title_and_date: self.layouts.title_and_date, self.display.set_border and
\* self.display.show, each of which returns or raises.
AppShowStep(ok) ==
    /\ app_pc \in {"title_and_date", "set_border", "show"}
    /\ IF ok
       THEN /\ app_pc' = IF config.entry = "main.py" THEN Main_AfterCall(app_pc)
                          ELSE AfterCall(app_pc)
            /\ calls' = Append(calls, <<app_pc, current_state.snapshot, "ok">>)
            /\ display_image' = IF app_pc = "show"
                                THEN <<current_state.title, current_state.date>>
                                ELSE display_image
            /\ UNCHANGED <<app_mode, current_state>>
       ELSE /\ AppRaise(app_pc \o " failed", <<app_pc, current_state.snapshot, "raise">>)
            /\ UNCHANGED display_image
    /\ UNCHANGED <<today, cycles>>
    /\ UNCHANGED <<clientVars, smVars, repoVars, config, main_loop>>

\* self.state.set(STATE_LAST_DISPLAY, snapshot)
AppPersist(w) ==
    /\ app_pc = "set"
    /\ _state' = DictSet(_state,
                         IF config.entry = "main.py" THEN Main_last_display
                         ELSE STATE_LAST_DISPLAY,
                         current_state.snapshot)
    /\ state_file' = _save_state(_state', state_file, w)
    /\ app_pc' = IF config.entry = "main.py" THEN Main_AfterCall(app_pc)
                 ELSE AfterCall(app_pc)
    /\ calls' = Append(calls, <<"set", current_state.snapshot, w>>)
    /\ UNCHANGED <<app_mode, current_state, today, cycles, display_image>>
    /\ UNCHANGED <<clientVars, sm_op, sm_fresh, sm_ops, repoVars, config, main_loop>>

\* Between two cycles a day passes.
AppNextDay ==
    /\ app_pc \in {"done", "raised"}
    /\ today < MaxDays
    /\ today' = today + 1
    /\ UNCHANGED <<app_pc, app_mode, current_state, calls, cycles, display_image>>
    /\ UNCHANGED <<clientVars, smVars, repoVars, config, main_loop>>

\* Between two cycles a new InkyPiApp is built: its StateManager loads the file.
AppNewInstance ==
    /\ app_pc \in {"done", "raised"}
    /\ _state' = _load_state(state_file)
    /\ app_pc' = "idle"
    /\ app_mode' = "try"
    /\ calls' = <<>>
    /\ current_state' = Shown(PyNone, PyNone, PyNone)
    /\ UNCHANGED <<display_image, today, cycles>>
    /\ UNCHANGED <<state_file, sm_op, sm_fresh, sm_ops>>
    /\ UNCHANGED <<clientVars, repoVars, config, main_loop>>

Init ==
    /\ ClientDefault
    /\ \E file \in InitialFiles : StateCreated(file)
    /\ AppIdle
    /\ RepoIdle

Next ==
    \/ AppStart
    \/ \E response_data \in AppResponses : AppFetch(response_data)
    \/ AppCompare
    \/ \E ok \in BOOLEAN : AppShowStep(ok)
    \/ \E w \in WriteOutcomes : AppPersist(w)
    \/ AppNextDay
    \/ AppNewInstance

Spec == Init /\ [][Next]_vars

----------------------------------------------------------------------------
(* Start of the process: InkyPiApp.__init__ of core/app.py and of main.py *)

\* os.getenv(name, default) for the value env of the variable
Getenv(env, default) == IF env = Unset THEN default ELSE env

\* core/app.py: self.nummer = os.getenv("NUMMER") or ""; if not self.nummer: raise ValueError
CoreApp_init(env) ==
    IF Getenv(env, PyNone) \in {PyNone, EmptyStr}
    THEN Raised("ValueError")
    ELSE Returned(Getenv(env, PyNone))

\* main.py: self.nummer = os.getenv('NUMMER', '013165')
MainApp_init(env) == Returned(Getenv(env, Text("013165")))

EntryPoints == {"core/app.py", "main.py"}

Environments == {Unset, EmptyStr, Text("013165")}

\* The process has started and is about to construct its InkyPiApp.
StartupInit ==
    /\ ClientDefault
    /\ StateIdle
    /\ RepoIdle
    /\ app_pc = "starting"
    /\ app_mode = "try"
    /\ current_state = Shown(PyNone, PyNone, PyNone)
    /\ calls = <<>>
    /\ display_image = <<PyNone, PyNone>>
    /\ today = 0
    /\ cycles = 0
    /\ config \in [entry : EntryPoints, NUMMER : Environments, nummer : {PyNone},
                   error : {"none"}]
    /\ main_loop = MainIdle

\* InkyPiApp.__init__: the collaborators are built (the StateManager loads the
\* state file), then NUMMER is read.
Construct ==
    /\ app_pc = "starting"
    /\ LET made == IF config.entry = "main.py" THEN MainApp_init(config.NUMMER)
                   ELSE CoreApp_init(config.NUMMER)
       IN  IF made.kind = "return"
           THEN /\ config' = [config EXCEPT !.nummer = made.value]
                /\ app_pc' = "idle"
           ELSE /\ config' = [config EXCEPT !.error = made.value[2]]
                /\ app_pc' = "config_error"
    /\ _state' = _load_state(state_file)
    /\ UNCHANGED <<app_mode, current_state, calls, display_image, today, cycles, main_loop>>
    /\ UNCHANGED <<clientVars, state_file, sm_op, sm_fresh, sm_ops, repoVars>>

StartupNext ==
    \/ Construct
    \/ Next

SpecStartup == StartupInit /\ [][StartupNext]_vars

----------------------------------------------------------------------------
(* main() of main.py: one update at startup, then the hourly job *)

\* Bound on the hours that pass while main() runs
MaxTriggers == 2

\* The state file main() may find: none, or the one an earlier process left
\* after it showed "No Pickups" on the day the model starts at.
EarlierFiles ==
    { FileAbsent,
      FileJson(JsonDump(PyDict(<< <<Main_last_display, NoPickupsState(0)>> >>))) }

\* main() has been entered; no InkyPiApp exists yet.
MainInit ==
    /\ ClientDefault
    /\ \E file \in EarlierFiles : StateCreated(file)
    /\ RepoIdle
    /\ app_pc = "no_app"
    /\ app_mode = "try"
    /\ current_state = Shown(PyNone, PyNone, PyNone)
    /\ calls = <<>>
    /\ display_image = <<PyNone, PyNone>>
    /\ today = 0
    /\ cycles = 0
    /\ config \in [entry : {"main.py"}, NUMMER : Environments, nummer : {PyNone},
                   error : {"none"}]
    /\ main_loop = [pc |-> "start", due |-> FALSE, triggers |-> 0, updates |-> 0,
                    running |-> 0, logged |-> 0]

\* update_display() is called: app = InkyPiApp() is about to be constructed.
BeginUpdate(pc) ==
    /\ main_loop' = [main_loop EXCEPT !.pc = pc, !.updates = @ + 1, !.running = @ + 1]
    /\ app_pc' = "starting"
    /\ app_mode' = "try"
    /\ calls' = <<>>
    /\ current_state' = Shown(PyNone, PyNone, PyNone)
    /\ UNCHANGED <<display_image, today, cycles, config>>
    /\ UNCHANGED <<clientVars, smVars, repoVars>>

\* "Run immediately on startup": the first update_display() of main()
MainInitialUpdate ==
    /\ main_loop.pc = "start"
    /\ BeginUpdate("initial_update")

\* app = InkyPiApp() raises: a collaborator cannot be built (InkyDisplay
\* re-raises what the display driver raised).
MainConstructRaises ==
    /\ main_loop.pc \in {"initial_update", "update"}
    /\ app_pc = "starting"
    /\ app_pc' = "init_error"
    /\ UNCHANGED <<app_mode, current_state, calls, display_image, today, cycles, config,
                   main_loop>>
    /\ UNCHANGED <<clientVars, smVars, repoVars>>

\* app.run() inside update_display: one show_next_waste_pickup
MainRun ==
    /\ main_loop.pc \in {"initial_update", "update"}
    /\ app_pc = "idle"
    /\ AppStart

\* Mutant: the job stays due after it ran.
DueAfterRun_NotRescheduled(due) == due

\* Mutant: update_display has no try/except; the exception of an update
\* reaches the except clause of main(), which exits.
AfterUpdate_Uncaught(pc, failed) ==
    IF failed THEN "exit_1"
    ELSE IF pc = "initial_update" THEN "run_pending" ELSE "sleep"

\* Where main() goes on when update_display returns: the try/except of
\* update_display has caught and logged what InkyPiApp() or run() raised, so
\* the call returns either way.  After the first update the job is scheduled
\* and the loop is entered; after a run of the job run_pending returns and the
\* loop sleeps.
AfterUpdate(pc, failed) == IF pc = "initial_update" THEN "run_pending" ELSE "sleep"

\* Whether the job is due once it is (re)scheduled: schedule.every().hour.do
\* and the job's rescheduling after a run set the next run one hour ahead.
DueAfterRun(due) == FALSE

\* update_display returns: run() returned, or the try/except logged the
\* exception of InkyPiApp() or run().
MainReturn ==
    /\ main_loop.pc \in {"initial_update", "update"}
    /\ app_pc \in {"done", "raised", "config_error", "init_error"}
    /\ main_loop' = [main_loop EXCEPT
                        !.pc = AfterUpdate(@, app_pc # "done"),
                        !.due = DueAfterRun(@),
                        !.running = @ - 1,
                        !.logged = IF app_pc # "done" THEN @ + 1 ELSE @]
    /\ UNCHANGED <<app_pc, app_mode, current_state, calls, display_image, today, cycles, config>>
    /\ UNCHANGED <<clientVars, smVars, repoVars>>

\* schedule.run_pending() with the job due: update_display() is called.
MainRunJob ==
    /\ main_loop.pc = "run_pending"
    /\ main_loop.due
    /\ BeginUpdate("update")

\* schedule.run_pending() with nothing due
MainNothingPending ==
    /\ main_loop.pc = "run_pending"
    /\ ~main_loop.due
    /\ main_loop' = [main_loop EXCEPT !.pc = "sleep"]
    /\ UNCHANGED <<app_pc, app_mode, current_state, calls, display_image, today, cycles, config>>
    /\ UNCHANGED <<clientVars, smVars, repoVars>>

\* time.sleep(60) returns.
MainSleep ==
    /\ main_loop.pc = "sleep"
    /\ main_loop' = [main_loop EXCEPT !.pc = "run_pending"]
    /\ UNCHANGED <<app_pc, app_mode, current_state, calls, display_image, today, cycles, config>>
    /\ UNCHANGED <<clientVars, smVars, repoVars>>

\* The scheduled hour of the job passes, wherever main() is.
Tick ==
    /\ main_loop.pc \in {"run_pending", "sleep", "update"}
    /\ main_loop.triggers < MaxTriggers
    /\ main_loop' = [main_loop EXCEPT !.due = TRUE, !.triggers = @ + 1]
    /\ UNCHANGED <<app_pc, app_mode, current_state, calls, display_image, today, cycles, config>>
    /\ UNCHANGED <<clientVars, smVars, repoVars>>

\* KeyboardInterrupt, wherever main() is: it is no Exception, so neither the
\* orchestrator nor update_display catches it; main() logs and calls sys.exit(0).
MainInterrupt ==
    /\ main_loop.pc \in {"start", "initial_update", "update", "run_pending", "sleep"}
    /\ main_loop' = [main_loop EXCEPT !.pc = "exit_0", !.running = 0]
    /\ app_pc' = IF main_loop.pc \in {"initial_update", "update"}
                    /\ app_pc \notin {"done", "raised", "config_error", "init_error"}
                 THEN "interrupted" ELSE app_pc
    /\ UNCHANGED <<app_mode, current_state, calls, display_image, today, cycles, config>>
    /\ UNCHANGED <<clientVars, smVars, repoVars>>

\* schedule.run_pending() (not the job) or time.sleep(60) raises an Exception:
\* main() logs "Application error" and calls sys.exit(1).
MainLoopError ==
    /\ main_loop.pc \in {"run_pending", "sleep"}
    /\ main_loop' = [main_loop EXCEPT !.pc = "exit_1"]
    /\ UNCHANGED <<app_pc, app_mode, current_state, calls, display_image, today, cycles, config>>
    /\ UNCHANGED <<clientVars, smVars, repoVars>>

MainNext ==
    \/ MainInitialUpdate
    \/ Construct
    \/ MainConstructRaises
    \/ MainRun
    \/ \E response_data \in AppResponses : AppFetch(response_data)
    \/ AppCompare
    \/ \E ok \in BOOLEAN : AppShowStep(ok)
    \/ \E w \in WriteOutcomes : AppPersist(w)
    \/ MainReturn
    \/ MainRunJob
    \/ MainNothingPending
    \/ MainSleep
    \/ Tick
    \/ MainInterrupt
    \/ MainLoopError

SpecMain == MainInit /\ [][MainNext]_vars

\* main() goes on: a call returns to its caller, time.sleep(60) returns, and
\* run_pending looks at the job.
SpecMainLive ==
    /\ SpecMain
    /\ WF_vars(MainReturn)
    /\ WF_vars(MainSleep)
    /\ WF_vars(MainRunJob)
    /\ WF_vars(MainNothingPending)

----------------------------------------------------------------------------
(* Properties of APIClient.get *)

ReturnedNone == get_result = [kind |-> "return", value |-> PyNone]

OnlyTransientFailures ==
    \A i \in 1..Len(outcomes) : outcomes[i].kind \in {"Timeout", "ConnectionError"}

\* C1: a get() whose every attempt fails with a timeout or a connection error
\* makes exactly max_retries+1 attempts and max_retries sleeps and returns None;
\* the calls alternate get, sleep, get, ..., get, and the k-th sleep lasts
\* backoff_base * 2^(k-1).
C1_TransientOnlyBackoff ==
    (get_pc = "done" /\ OnlyTransientFailures) =>
        /\ Len(events) = 2 * max_retries + 1
        /\ \A k \in 1..(max_retries + 1) : events[2 * k - 1] = <<"get", k>>
        /\ \A k \in 1..max_retries : events[2 * k] = <<"sleep", backoff_base * 2^(k - 1)>>
        /\ ReturnedNone

C1_Witness ==
    /\ get_pc = "done"
    /\ OnlyTransientFailures
    /\ max_retries >= 2
    /\ backoff_base >= 1
    /\ Len(outcomes) = max_retries + 1

\* C2: an attempt that fails with an HTTP error status, a malformed JSON body
\* or any other unexpected error is the last thing the call does: get() has
\* returned None, no attempt and no sleep follow it, and when it is the first
\* attempt the call made exactly one attempt and no sleep.
C2_PermanentFailureEndsCall ==
    \A i \in 1..Len(outcomes) :
        outcomes[i].kind \in {"HTTPError", "JSONDecodeError", "Exception"} =>
            /\ i = Len(outcomes)
            /\ get_pc = "done"
            /\ ReturnedNone
            /\ events[Len(events)] = <<"get", i>>
            /\ Len(events) = 2 * i - 1
            /\ (i = 1 => events = << <<"get", 1>> >>)

C2_Witness ==
    /\ get_pc = "done"
    /\ Len(outcomes) = 2
    /\ outcomes[2].kind = "HTTPError"
    /\ max_retries >= 2

\* C3: when attempt k+1 succeeds after k transient failures, get() returns the
\* decoded body of that attempt after exactly k+1 attempts and k sleeps, and
\* nothing is attempted after the successful attempt.
C3_SuccessAfterTransients ==
    \A i \in 1..Len(outcomes) :
        outcomes[i].kind = "success" =>
            /\ i = Len(outcomes)
            /\ get_pc = "done"
            /\ get_result = [kind |-> "return", value |-> outcomes[i].body]
            /\ Len(SelectSeq(events, LAMBDA e : e[1] = "get")) = i
            /\ Len(SelectSeq(events, LAMBDA e : e[1] = "sleep")) = i - 1
            /\ events[Len(events)] = <<"get", i>>

C3_Witness ==
    /\ get_pc = "done"
    /\ Len(outcomes) = 3
    /\ outcomes[3].kind = "success"
    /\ outcomes[3].body # PyNone
    /\ get_result.value = outcomes[3].body

\* C4: get() never raises: whatever the attempts did, it ends by returning the
\* decoded body of its successful attempt or None.
C4_NeverRaises ==
    /\ get_result.kind # "raise"
    /\ get_pc = "done" =>
           /\ get_result.kind = "return"
           /\ get_result.value \in Bodies \cup {PyNone}

C4_Witness ==
    /\ get_pc = "done"
    /\ Len(outcomes) >= 2
    /\ outcomes[Len(outcomes)].kind = "Exception"
    /\ ReturnedNone

----------------------------------------------------------------------------
(* Properties of StateManager *)

Missing == <<"missing">>

JsonType(v) == IF v[1] \in {"int", "float"} THEN "number" ELSE v[1]

\* Deep equality of two values as JSON: same JSON type, same content.
RECURSIVE JsonDeepEq(_, _)
JsonDeepEq(a, b) ==
    /\ JsonType(a) = JsonType(b)
    /\ CASE a[1] = "list" ->
              /\ Len(a[2]) = Len(b[2])
              /\ \A i \in 1..Len(a[2]) : JsonDeepEq(a[2][i], b[2][i])
         [] a[1] = "dict" ->
              /\ DictKeys(a) = DictKeys(b)
              /\ \A k \in DictKeys(a) :
                    JsonDeepEq(DictGet(a, k, Missing), DictGet(b, k, Missing))
         [] JsonType(a) = "number" -> a[2] = b[2]
         [] OTHER -> a = b

SetReturned == sm_op.name = "set" /\ sm_op.result.kind = "return"

\* C7: has_changed(key, v) returns false exactly when key is stored and its
\* value deep-equals v; in particular it returns true for every v when key was
\* never set.
C7_HasChangedIffNotDeepEqual ==
    (sm_op.name = "has_changed" /\ sm_op.result.kind = "return") =>
        LET stored == DictGet(_state, sm_op.key, Missing)
        IN  sm_op.result.value =
                PyBool(~(stored # Missing /\ JsonDeepEq(stored, sm_op.value)))

\* C8: a has_changed call leaves the in-memory state and the state file as they
\* were, and a call that repeats the previous has_changed call with the same
\* arguments gives the same result.
C8_HasChangedPure ==
    [][(sm_ops' = sm_ops + 1 /\ sm_op'.name = "has_changed") =>
          /\ _state' = _state
          /\ state_file' = state_file
          /\ (sm_op'.repeat => sm_op'.result = sm_op.result)]_vars

C8_Witness ==
    /\ sm_op.name = "has_changed"
    /\ sm_op.repeat
    /\ sm_op.value = Tomning
    /\ sm_op.result = Returned(PyBool(FALSE))

\* C9 as claimed: after every set(key, value) the in-memory map maps key to
\* value and the file holds exactly the whole in-memory map.
C9_SetPersistsWholeMap ==
    SetReturned =>
        /\ DictGet(_state, sm_op.key, Missing) = sm_op.value
        /\ state_file = FileJson(JsonDump(_state))

\* C9: after every set(key, value) that returns, the in-memory map maps key to
\* value (one entry per key, a later set overwrites), and when the write of the
\* state file succeeded the file holds exactly the whole in-memory map.
C9_SetPersistsWhenWritten ==
    SetReturned =>
        /\ DictGet(_state, sm_op.key, Missing) = sm_op.value
        /\ Cardinality(DictKeys(_state)) = Len(_state[2])
        /\ (sm_op.write = "ok" => state_file = FileJson(JsonDump(_state)))

C9_Witness ==
    /\ SetReturned
    /\ sm_op.write = "ok"
    /\ sm_op.repeat = FALSE
    /\ sm_ops >= 2
    /\ Len(_state[2]) = 2
    /\ state_file = FileJson(JsonDump(_state))

\* C10 as claimed: a get(key) on a StateManager constructed after set(key, value)
\* on the same file returns the value that was set.
C10_RoundTrip ==
    (sm_op.name = "get" /\ sm_fresh[1] = "reloaded" /\ sm_op.key = sm_fresh[2]) =>
        sm_op.result = Returned(sm_fresh[3])

\* C10: when the write made by set(key, value) succeeded, a get(key) on a
\* StateManager constructed afterwards on the same file returns the value that
\* was set.
C10_RoundTripWhenWritten ==
    (/\ sm_op.name = "get"
     /\ sm_fresh[1] = "reloaded"
     /\ sm_op.key = sm_fresh[2]
     /\ sm_fresh[4] = "ok") =>
        sm_op.result = Returned(sm_fresh[3])

C10_Witness ==
    /\ sm_op.name = "get"
    /\ sm_fresh[1] = "reloaded"
    /\ sm_fresh[4] = "ok"
    /\ sm_op.key = sm_fresh[2]
    /\ sm_fresh[3] # PyNone
    /\ sm_fresh[3][1] = "dict"
    /\ sm_op.result = Returned(sm_fresh[3])

----------------------------------------------------------------------------
(* Properties of the orchestrator cycle *)

\* The value stored under "last_display" in memory, if any.
StoredLastDisplay ==
    IF IsDict(_state) THEN DictGet(_state, STATE_LAST_DISPLAY, Missing) ELSE Missing

UpdateCalls == {"title_and_date", "set_border", "show", "set"}

IsCall(i, name, snap, how) == i >= 1 /\ calls[i] = <<name, snap, how>>

\* Every renderer, display and state.set call of the cycle follows a comparison
\* of the same snapshot that found it changed.
UpdatesFollowChange ==
    /\ app_pc \in UpdateCalls => StoredLastDisplay # current_state.snapshot
    /\ \A i \in 1..Len(calls) :
          calls[i][1] \in UpdateCalls =>
              \E j \in 1..(i - 1) :
                 /\ calls[j] = <<"has_changed", calls[i][2], "True">>
                 /\ \A m \in (j + 1)..(i - 1) : calls[m][1] \in UpdateCalls

\* C5: the renderer, display.show and state.set are called only for a snapshot
\* that differs from the stored "last_display"; a comparison that finds the
\* snapshot equal to the stored one ends the cycle with no such call and leaves
\* the in-memory state, the state file and the display as they were.
C5_RedrawOnlyOnChange ==
    [][/\ UpdatesFollowChange'
       /\ (app_pc = "compare" /\ StoredLastDisplay = current_state.snapshot) =>
             /\ app_pc' = "done"
             /\ calls' = Append(calls, <<"has_changed", current_state.snapshot, "False">>)
             /\ UNCHANGED <<_state, state_file, display_image>>]_vars

C5_Witness ==
    /\ app_pc = "done"
    /\ cycles >= 2
    /\ Len(calls) = 2
    /\ calls[2] = <<"has_changed", current_state.snapshot, "False">>
    /\ DictGet(current_state.snapshot, "status", PyNone) = Text("success")
    /\ display_image = <<current_state.title, current_state.date>>

\* C6: an update renders the image, then sets the border, then shows the image,
\* then persists the snapshot: each call follows the successful previous one for
\* the same snapshot, and a cycle that completes leaves the snapshot it computed
\* (the one it compared last: the error snapshot when the try block raised)
\* stored under "last_display", after all four calls when that snapshot differed.
C6_RenderShowPersist ==
    /\ \A i \in 1..Len(calls) :
          LET s == calls[i][2]
          IN  /\ calls[i][1] = "title_and_date" => IsCall(i - 1, "has_changed", s, "True")
              /\ calls[i][1] = "set_border" => IsCall(i - 1, "title_and_date", s, "ok")
              /\ calls[i][1] = "show" => IsCall(i - 1, "set_border", s, "ok")
              /\ calls[i][1] = "set" => IsCall(i - 1, "show", s, "ok")
              /\ (/\ calls[i] = <<"has_changed", current_state.snapshot, "True">>
                  /\ \A m \in (i + 1)..Len(calls) : calls[m][1] # "has_changed"
                  /\ app_pc = "done") =>
                     /\ Len(calls) = i + 4
                     /\ calls[i + 4][1] = "set"
    /\ app_pc = "done" => StoredLastDisplay = current_state.snapshot

C6_Witness ==
    /\ app_pc = "done"
    /\ Len(calls) = 6
    /\ calls[5] = <<"show", current_state.snapshot, "ok">>
    /\ calls[6][1] = "set"
    /\ DictGet(current_state.snapshot, "status", PyNone) = Text("success")
    /\ StoredLastDisplay = current_state.snapshot
    /\ display_image = <<current_state.title, current_state.date>>

----------------------------------------------------------------------------
(* StateManager construction and clear *)

Constructed == sm_op.name = "__init__"

\* C11: constructing a StateManager always returns; on an absent file the store
\* is empty, on a parsable file the store holds the file's content (dumping it
\* gives the file's document back), and on an unparsable file the store is
\* empty and an error record is logged.
C11_ConstructionNeverFails ==
    Constructed =>
        /\ sm_op.result = Returned(PyNone)
        /\ state_file.kind = "absent" => _state = EmptyDict
        /\ state_file.kind = "json" =>
              /\ JsonDump(_state) = state_file.doc
              /\ "error" \notin { sm_op.log[i] : i \in 1..Len(sm_op.log) }
        /\ state_file.kind = "corrupt" =>
              /\ _state = EmptyDict
              /\ sm_op.log = <<"error">>

\* A store is constructed on a file that a failed write left unparsable.
C11_Witness ==
    /\ Constructed
    /\ sm_ops >= 2
    /\ state_file.kind = "corrupt"
    /\ _state = EmptyDict
    /\ sm_op.log = <<"error">>

Cleared == sm_op.name = "clear"

ReloadedAfterClear == Constructed /\ sm_fresh[1] = "reloaded_clear"

\* C12: after clear() the in-memory map is empty and the state file holds an
\* empty JSON object; a StateManager constructed next on the same file starts
\* empty.
C12_ClearEmptiesMapAndFile ==
    /\ Cleared => /\ _state = EmptyDict
                  /\ state_file = FileJson(JsonDump(EmptyDict))
    /\ ReloadedAfterClear => _state = EmptyDict

\* C12, amended: the in-memory map is always empty after clear(); the file holds
\* an empty JSON object, and the next StateManager starts empty, when the write
\* succeeded.  A failed write is logged as an error and swallowed.
C12_ClearEmptiesWhenWritten ==
    /\ Cleared => /\ _state = EmptyDict
                  /\ sm_op.result = Returned(PyNone)
                  /\ sm_op.write = "ok" => state_file = FileJson(JsonDump(EmptyDict))
                  /\ sm_op.write # "ok" => "error" \in { sm_op.log[i] : i \in 1..Len(sm_op.log) }
    /\ (ReloadedAfterClear /\ sm_fresh[4] = "ok") =>
          /\ _state = EmptyDict
          /\ state_file = FileJson(JsonDump(EmptyDict))

\* A store was used, cleared and written, and a new StateManager built on the file.
C12_Witness ==
    /\ ReloadedAfterClear
    /\ sm_fresh[4] = "ok"
    /\ sm_ops >= 3
    /\ _state = EmptyDict
    /\ state_file = FileJson(JsonDump(EmptyDict))

----------------------------------------------------------------------------
(* The states a cycle ends in *)

\* The value get_schedule returned in the running cycle
HasFetched == Len(calls) >= 1 /\ calls[1][1] = "get_schedule"

Fetched == calls[1][2]

Status(snap) == IF IsDict(snap) THEN DictGet(snap, "status", PyNone) ELSE PyNone

\* The try block has computed its snapshot and is about to compare it.
AboutToCompare == app_pc = "compare" /\ app_mode = "try"

\* The snapshot the try block compared, and whether it differed from the stored one
FirstCompared == calls[2][2]

HasCompared == Len(calls) >= 2 /\ calls[2][1] = "has_changed"

ComparedChanged == HasCompared /\ calls[2][3] = "True"

CycleEnded == app_pc \in {"done", "raised"}

\* A call of the running cycle raised.
SomeCallRaised == \E i \in 1..Len(calls) : calls[i][3] = "raise"

ShownAs(title, snap) == display_image = <<Text(title), DictGet(snap, "date", PyNone)>>

\* C13: when get_schedule returns None the cycle computes the snapshot
\* {status no_data, date today} and ends with that snapshot, the title "No Data"
\* and the date being on the display if the snapshot differed from the stored one.
C13_NoneEndsInNoData ==
    (HasFetched /\ Fetched = PyNone) =>
        /\ AboutToCompare => current_state.snapshot = NoDataState(today)
        /\ CycleEnded =>
              /\ Status(current_state.snapshot) = Text("no_data")
              /\ ComparedChanged => ShownAs("No Data", current_state.snapshot)

\* C13, amended: when get_schedule returns None the try block computes the
\* snapshot {status no_data, date today} and compares it first; if it differs,
\* the update is started with the title "No Data" and that date.  A cycle that
\* completes without a raising call ends with that snapshot, shown and stored
\* if it differed; once a call raised, the except clause has replaced it by the
\* error snapshot.
C13_NoneEndsInNoDataUnlessRaised ==
    (HasFetched /\ Fetched = PyNone) =>
        /\ AboutToCompare =>
              current_state = Shown(NoDataState(today), Text("No Data"), IsoDate(today))
        /\ HasCompared => Status(FirstCompared) = Text("no_data")
        /\ (ComparedChanged /\ Len(calls) >= 3) =>
              /\ calls[3][1] = "title_and_date"
              /\ calls[3][2] = FirstCompared
        /\ (app_pc = "done" /\ app_mode = "try") =>
              /\ current_state.snapshot = FirstCompared
              /\ current_state.title = Text("No Data")
              /\ ~SomeCallRaised
              /\ ComparedChanged =>
                    /\ ShownAs("No Data", current_state.snapshot)
                    /\ StoredLastDisplay = current_state.snapshot
        /\ app_mode = "except" =>
              /\ SomeCallRaised
              /\ Status(current_state.snapshot) = Text("error")

C13_Witness ==
    /\ HasFetched
    /\ Fetched = PyNone
    /\ app_pc = "done"
    /\ app_mode = "try"
    /\ ComparedChanged
    /\ ShownAs("No Data", current_state.snapshot)
    /\ StoredLastDisplay = NoDataState(today)

\* The first schedule of a non-empty list has no collection eligible as next pickup.
FirstHasNoUpcoming(r) == IsList(r) /\ r # PyList(<<>>) /\ Upcoming(r[2][1], AppClock) = <<>>

\* C14: when get_schedule returns an empty list, or a list whose first schedule
\* has no eligible collection (whatever the other schedules hold), the cycle
\* computes the snapshot with status no_pickups and the title "No Pickups" and
\* ends with them.
C14_EmptyOrNoneEligibleEndsInNoPickups ==
    /\ (HasFetched /\ AboutToCompare /\ (Fetched = PyList(<<>>) \/ FirstHasNoUpcoming(Fetched))) =>
          /\ Status(current_state.snapshot) = Text("no_pickups")
          /\ current_state.title = Text("No Pickups")
    /\ (HasCompared /\ Status(FirstCompared) = Text("no_pickups") /\ CycleEnded) =>
          /\ Status(current_state.snapshot) = Text("no_pickups")
          /\ ComparedChanged => ShownAs("No Pickups", current_state.snapshot)

\* C14, amended: an empty list is handled like None (snapshot no_data, title
\* "No Data"); a non-empty list gives the snapshot no_pickups and the title
\* "No Pickups" exactly when its first schedule has no eligible collection, and
\* the snapshot depends on the first schedule only.  A cycle that completes
\* without a raising call ends with that snapshot, shown and stored if it
\* differed.
C14_FirstScheduleDecidesNoPickups ==
    /\ (HasFetched /\ AboutToCompare /\ Fetched = PyList(<<>>)) =>
          current_state = Shown(NoDataState(today), Text("No Data"), IsoDate(today))
    /\ (HasFetched /\ AboutToCompare /\ IsList(Fetched) /\ Fetched # PyList(<<>>)) =>
          /\ FirstHasNoUpcoming(Fetched) <=>
                current_state = Shown(NoPickupsState(today), Text("No Pickups"), IsoDate(today))
          /\ ~FirstHasNoUpcoming(Fetched) =>
                /\ Status(current_state.snapshot) = Text("success")
                /\ \E i \in 1..Len(Fetched[2][1][2].planlagtetoemninger) :
                      DictGet(current_state.snapshot, "fractions", PyNone) =
                          Fetched[2][1][2].planlagtetoemninger[i][2].fraktioner
    /\ (HasCompared /\ Status(FirstCompared) = Text("no_pickups")
        /\ app_pc = "done" /\ app_mode = "try") =>
          /\ current_state.snapshot = FirstCompared
          /\ current_state.title = Text("No Pickups")
          /\ ComparedChanged =>
                /\ ShownAs("No Pickups", current_state.snapshot)
                /\ StoredLastDisplay = current_state.snapshot

\* The first schedule holds only a past entry, the second one an upcoming entry.
C14_Witness ==
    /\ HasFetched
    /\ IsList(Fetched)
    /\ Len(Fetched[2]) = 2
    /\ Len(Fetched[2][1][2].planlagtetoemninger) = 1
    /\ HasCompared
    /\ Status(FirstCompared) = Text("no_pickups")
    /\ app_pc = "done"
    /\ app_mode = "try"
    /\ ShownAs("No Pickups", current_state.snapshot)
    /\ StoredLastDisplay = current_state.snapshot

\* C15: a failure inside the try block is turned into the error snapshot (status
\* "error" with the failure message), shown with the title "Error" when the
\* snapshot changed, and show_next_waste_pickup never lets an exception out.
C15_FailureBecomesErrorState ==
    /\ app_pc # "raised"
    /\ app_mode = "except" =>
          /\ Status(current_state.snapshot) = Text("error")
          /\ DictGet(current_state.snapshot, "message", PyNone) # PyNone
          /\ current_state.title = Text("Error")
          /\ (app_pc = "done" /\ calls[Len(calls)][1] = "set") =>
                ShownAs("Error", current_state.snapshot)

----------------------------------------------------------------------------
(* Properties of WasteRepository.get_schedule *)

GotSchedule == repo_op.name = "get_schedule"

LoggedError(log) == \E i \in 1..Len(log) : log[i][1] = "error"

\* C16: get_schedule makes exactly one client.get call, with the path
\* /api/v1/toemmekalender and the identifier as the query parameter "nummer";
\* it never raises; and it returns None and logs an error whenever client.get
\* returned None or a decoded body that is not an array.
C16_NoResultUnlessArray ==
    GotSchedule =>
        /\ repo_op.requests =
              << [endpoint |-> "/api/v1/toemmekalender",
                  params |-> PyDict(<< <<"nummer", repo_op.arg>> >>)] >>
        /\ repo_op.result.kind = "return"
        /\ (response = PyNone \/ response[1] # "list") =>
              /\ repo_op.result = Returned(PyNone)
              /\ LoggedError(repo_op.log)

\* client.get returned a JSON object, and an array with an element that cannot be parsed.
C16_Witness ==
    /\ GotSchedule
    /\ response[1] = "dict"
    /\ repo_op.result = Returned(PyNone)
    /\ LoggedError(repo_op.log)
    /\ Len(repo_op.requests) = 1

\* The record parsed from element item holds the element's fields, with the
\* defaults for the fields the element lacks or that do not parse.
ParsedFrom(record, item) ==
    LET standplads == DictGet(item, "standplads", EmptyDict)
        planlagt == DictGet(item, "planlagtetømninger", PyList(<<>>))
        collections == record[2].planlagtetoemninger
    IN  /\ record[1] = "WasteSchedule"
        /\ record[2].standplads[2].nummer = DictGet(standplads, "nummer", EmptyStr)
        /\ record[2].standplads[2].adresse[2].kommunenummer =
              DictGet(DictGet(standplads, "adresse", EmptyDict), "kommunenummer", PyInt(0))
        /\ \/ fromisoformat(DictGet(standplads, "sidstændret", EmptyStr)).kind = "return"
           \/ record[2].standplads[2].sidstaendret = clock.local
        /\ Len(collections) = Len(planlagt[2])
        /\ \A j \in 1..Len(collections) :
              /\ collections[j][2].fraktioner = DictGet(planlagt[2][j], "fraktioner", PyList(<<>>))
              /\ \/ /\ DictGet(planlagt[2][j], "dato", EmptyStr)[1] = "str"
                    /\ \E h \in Hours, zone \in {"Z", ""} :
                          /\ DictGet(planlagt[2][j], "dato", EmptyStr) =
                                IsoTimestamp(collections[j][2].dato[2].day, h, zone)
                          /\ collections[j][2].dato[2].hour = h
                          /\ collections[j][2].dato[2].aware = (zone = "Z")
                 \/ collections[j][2].dato = clock.local

\* C17: for every array client.get returns, get_schedule returns a list with
\* one record per element, in order, each parsed from its element with defaults
\* for what is missing, null or of the wrong type.
C17_OneRecordPerElement ==
    (GotSchedule /\ IsList(response)) =>
        /\ repo_op.result.kind = "return"
        /\ IsList(repo_op.result.value)
        /\ Len(repo_op.result.value[2]) = Len(response[2])
        /\ \A i \in 1..Len(response[2]) : ParsedFrom(repo_op.result.value[2][i], response[2][i])

\* The element is an object whose standplads and adresse, where present, are
\* objects and whose planlagtetømninger, where present, is an array of objects.
ObjectShaped(item) ==
    /\ IsDict(item)
    /\ IsDict(DictGet(item, "standplads", EmptyDict))
    /\ IsDict(DictGet(DictGet(item, "standplads", EmptyDict), "adresse", EmptyDict))
    /\ IsList(DictGet(item, "planlagtetømninger", PyList(<<>>)))
    /\ \A j \in 1..Len(DictGet(item, "planlagtetømninger", PyList(<<>>))[2]) :
          IsDict(DictGet(item, "planlagtetømninger", PyList(<<>>))[2][j])

\* C17, amended: when every element of the array is object-shaped, the result
\* is a list with one record per element, in order, with defaults for missing
\* fields and for dates that are missing, null, of the wrong type or
\* unparsable; when an element is not an object, or its standplads, adresse or
\* planlagtetømninger is null or holds a non-object, the whole call logs an
\* error and returns None.
C17_OneRecordPerObjectShapedElement ==
    (GotSchedule /\ IsList(response)) =>
        IF \A i \in 1..Len(response[2]) : ObjectShaped(response[2][i])
        THEN /\ repo_op.result.kind = "return"
             /\ IsList(repo_op.result.value)
             /\ Len(repo_op.result.value[2]) = Len(response[2])
             /\ \A i \in 1..Len(response[2]) :
                   ParsedFrom(repo_op.result.value[2][i], response[2][i])
        ELSE /\ repo_op.result = Returned(PyNone)
             /\ LoggedError(repo_op.log)

\* Two elements, one of them without any known field, give two records.
C17_Witness ==
    /\ GotSchedule
    /\ IsList(response)
    /\ Len(response[2]) = 2
    /\ response[2][2] = PyDict(<< <<"invalid", Text("data")>> >>)
    /\ response[2][1] # response[2][2]
    /\ IsList(repo_op.result.value)
    /\ Len(repo_op.result.value[2]) = 2
    /\ repo_op.result.value[2][2][2].standplads[2].nummer = EmptyStr
    /\ repo_op.result.value[2][2][2].planlagtetoemninger = <<>>

----------------------------------------------------------------------------
(* Properties of the domain models *)

GotNext == repo_op.name = "get_next_collection"

\* The entries of the schedule get_next_collection was called on
Entries == schedules[2][repo_op.arg[2]][2].planlagtetoemninger

\* The datetime is at or after the current moment on its own time line.
NotBeforeNow(dt) ==
    IF dt[2].aware THEN Hour(dt) >= Hour(clock.utc) ELSE Hour(dt) >= Hour(clock.local)

\* entry j has the least datetime of the entries in the set eligible
LeastOf(j, eligible) ==
    /\ j \in eligible
    /\ \A k \in eligible : Hour(Entries[j][2].dato) <= Hour(Entries[k][2].dato)

\* C18: get_next_collection returns the entry with the least date among the
\* entries whose date is at or after the current moment, and None when there
\* is no such entry; a returned entry's date is never earlier than now.
C18_NextIsEarliestFromNow ==
    GotNext =>
        LET eligible == { j \in 1..Len(Entries) : NotBeforeNow(Entries[j][2].dato) }
        IN  /\ repo_op.result.kind = "return"
            /\ eligible = {} => repo_op.result.value = PyNone
            /\ eligible # {} =>
                  \E j \in eligible : /\ LeastOf(j, eligible)
                                      /\ repo_op.result.value = Entries[j]
            /\ repo_op.result.value # PyNone => NotBeforeNow(repo_op.result.value[2].dato)

\* C18, amended: eligibility goes by calendar day.  get_next_collection
\* returns None when no entry's date (dato.date()) is on or after the current
\* UTC date; otherwise the first of the entries with the least datetime among
\* those whose date is on or after the current UTC date, so that the date of a
\* returned entry is never before today's, while its time of day may have
\* passed; and it raises TypeError when those entries mix datetimes with and
\* without UTC offset.
C18_NextIsEarliestFromToday ==
    GotNext =>
        LET eligible == { j \in 1..Len(Entries) : DateOf(Entries[j]) >= clock.utc[2].day }
            mixed == \E j, k \in eligible :
                        Entries[j][2].dato[2].aware # Entries[k][2].dato[2].aware
        IN  /\ eligible = {} => repo_op.result = Returned(PyNone)
            /\ mixed => repo_op.result = Raised("TypeError")
            /\ (eligible # {} /\ ~mixed) =>
                  \E j \in eligible :
                      /\ LeastOf(j, eligible)
                      /\ \A k \in eligible : LeastOf(k, eligible) => j <= k
                      /\ repo_op.result = Returned(Entries[j])
            /\ (repo_op.result.kind = "return" /\ repo_op.result.value # PyNone) =>
                  DateOf(repo_op.result.value) >= clock.utc[2].day

\* Of two entries the one of today is returned although its hour has passed.
C18_Witness ==
    /\ GotNext
    /\ Len(Entries) = 2
    /\ repo_op.result.kind = "return"
    /\ repo_op.result.value # PyNone
    /\ repo_op.result.value = Entries[2]
    /\ DateOf(repo_op.result.value) = clock.utc[2].day
    /\ Hour(repo_op.result.value[2].dato) < Hour(clock.utc)

GotDateStr == repo_op.name = "get_date_str"

\* The entry get_date_str was called on, and the element it was parsed from
LabelledEntry == schedules[2][repo_op.arg[1][2]][2].planlagtetoemninger[repo_op.arg[2][2]]

LabelledItem ==
    DictGet(response[2][repo_op.arg[1][2]], "planlagtetømninger", PyList(<<>>))[2][repo_op.arg[2][2]]

\* C19: get_date_str returns "i dag" exactly when the collection's date is the
\* current local calendar day, "i morgen" exactly when it is the next day, and
\* otherwise the date as YYYY-MM-DD: the first ten characters of a timestamp
\* the entry was parsed from.
C19_DateLabel ==
    GotDateStr =>
        LET d == DateOf(LabelledEntry)
            today_local == clock.local[2].day
        IN  /\ repo_op.result.kind = "return"
            /\ (repo_op.result.value = Text("i dag")) <=> (d = today_local)
            /\ (repo_op.result.value = Text("i morgen")) <=> (d = today_local + 1)
            /\ (d # today_local /\ d # today_local + 1) =>
                  \E h \in Hours, zone \in {"Z", ""}, ymd \in { IsoDay(x) : x \in Days } :
                      /\ LabelledItem =
                            CollectionItem(Text(ymd \o "T" \o TwoDigits(h) \o ":00:00" \o zone),
                                           LabelledEntry[2].fraktioner[2])
                      /\ repo_op.result.value = Text(ymd)

\* The three labels, read on a day that has begun locally but not yet in UTC.
C19_Witness ==
    /\ GotDateStr
    /\ clock.local[2].day = clock.utc[2].day + 1
    /\ DateOf(LabelledEntry) = clock.local[2].day
    /\ LabelledEntry[2].dato[2].aware
    /\ repo_op.result = Returned(Text("i dag"))

----------------------------------------------------------------------------
(* The required identifier *)

IdentifierAbsent == config.NUMMER \in {Unset, EmptyStr}

\* C20: when NUMMER is unset or empty the start fails with a configuration
\* error before any fetch, display update or state write, and the
\* configuration error is the only error the start can end with.
C20_MissingIdentifierFailsFast ==
    /\ (IdentifierAbsent /\ app_pc # "starting") =>
          /\ app_pc = "config_error"
          /\ config.error = "ValueError"
          /\ calls = <<>>
          /\ display_image = <<PyNone, PyNone>>
          /\ state_file = FileAbsent
    /\ app_pc = "config_error" => (IdentifierAbsent /\ config.error = "ValueError")

----------------------------------------------------------------------------
(* The Success snapshot *)

\* The entries of the first schedule get_schedule returned
FirstEntries == Fetched[2][1][2].planlagtetoemninger

\* The names joined with ", ", for up to three names
JoinedNames(names) ==
    CASE Len(names) = 0 -> EmptyStr
      [] Len(names) = 1 -> names[1]
      [] Len(names) = 2 -> PyStr(Concat(names[1][2], Concat(<<Ascii(", ")>>, names[2][2])))
      [] Len(names) = 3 ->
            PyStr(Concat(names[1][2],
                         Concat(<<Ascii(", ")>>,
                                Concat(names[2][2], Concat(<<Ascii(", ")>>, names[3][2])))))

\* The label of day d read on the current day
DateLabel(d) ==
    CASE d = today -> Text("i dag")
      [] d = today + 1 -> Text("i morgen")
      [] OTHER -> Text("2026-11-" \o TwoDigits(10 + d))

\* C21: when the try block has computed a snapshot with status "success", the
\* snapshot has exactly the keys status, waste_types, collection_date and
\* fractions; they describe the first of the entries with the least date among
\* the entries of the first schedule dated today or later: waste_types is its
\* fraction names joined with ", ", collection_date its date label, fractions
\* its fraction list as received.  For the sample response read two or more
\* days ahead, waste_types is "Restaffald, Papir" and collection_date the ISO
\* date of the earlier entry.
C21_SuccessSnapshot ==
    /\ (HasFetched /\ AboutToCompare /\ Status(current_state.snapshot) = Text("success")) =>
          LET eligible == { j \in 1..Len(FirstEntries) : DateOf(FirstEntries[j]) >= today }
              least == { j \in eligible :
                           \A k \in eligible :
                               Hour(FirstEntries[j][2].dato) <= Hour(FirstEntries[k][2].dato) }
          IN  /\ least # {}
              /\ LET c == FirstEntries[CHOOSE j \in least : \A k \in least : j <= k]
                 IN  /\ current_state.snapshot =
                           PyDict(<< <<"status", Text("success")>>,
                                     <<"waste_types", JoinedNames(c[2].fraktioner[2])>>,
                                     <<"collection_date", DateLabel(DateOf(c))>>,
                                     <<"fractions", c[2].fraktioner>> >>)
                     /\ current_state.title = JoinedNames(c[2].fraktioner[2])
                     /\ current_state.date = DateLabel(DateOf(c))
    /\ (HasFetched /\ AboutToCompare /\ today = 0
        /\ Fetched = get_schedule(sample_api_response, AppClock).result.value) =>
          /\ Status(current_state.snapshot) = Text("success")
          /\ DictGet(current_state.snapshot, "waste_types", PyNone) = Text("Restaffald, Papir")
          /\ DictGet(current_state.snapshot, "collection_date", PyNone) = Text("2026-11-12")
          /\ DictGet(current_state.snapshot, "fractions", PyNone) = PyList(<<Restaffald, Papir>>)

\* The sample response, read two days before its first entry.
C21_Witness ==
    /\ HasFetched
    /\ AboutToCompare
    /\ today = 0
    /\ Len(Fetched[2]) = 1
    /\ Len(FirstEntries) = 2
    /\ FirstEntries[2][2].fraktioner = PyList(<<Glas, Metal>>)
    /\ current_state.snapshot =
          PyDict(<< <<"status", Text("success")>>,
                    <<"waste_types", Text("Restaffald, Papir")>>,
                    <<"collection_date", Text("2026-11-12")>>,
                    <<"fractions", PyList(<<Restaffald, Papir>>)>> >>)

----------------------------------------------------------------------------
(* Properties of APIClient.post *)

Posted == request.method = "POST" /\ get_pc = "done"

\* C22: post() makes exactly one request and never sleeps, whatever
\* max_retries is and however the request fails (timeout, connection error,
\* HTTP error status, malformed JSON, other error); it returns the decoded
\* body on success and None on every failure, and never raises.
C22_PostSingleAttempt ==
    /\ get_result.kind # "raise"
    /\ Posted =>
          /\ events = << <<"post", 1>> >>
          /\ Len(outcomes) = 1
          /\ \A i \in 1..Len(events) : events[i][1] # "sleep"
          /\ outcomes[1].kind = "success" =>
                get_result = [kind |-> "return", value |-> outcomes[1].body]
          /\ outcomes[1].kind \in FailureKinds => ReturnedNone

\* A post that times out on a client with three retries: one request, None.
C22_Witness ==
    /\ Posted
    /\ max_retries = 3
    /\ backoff_base >= 1
    /\ outcomes = << [kind |-> "Timeout", body |-> NoBody] >>
    /\ events = << <<"post", 1>> >>
    /\ ReturnedNone

----------------------------------------------------------------------------
(* The request URL *)

\* s is the text t followed by k slashes, and t does not end with a slash
EndsWithSlashes(s, t, k) ==
    /\ k \in 0..Len(s)
    /\ t = SubSeq(s, 1, Len(s) - k)
    /\ \A i \in (Len(s) - k + 1)..Len(s) : s[i] = "/"
    /\ t = <<>> \/ t[Len(t)] # "/"

\* s is k slashes followed by the text t, and t does not begin with a slash
BeginsWithSlashes(s, t, k) ==
    /\ k \in 0..Len(s)
    /\ t = SubSeq(s, k + 1, Len(s))
    /\ \A i \in 1..k : s[i] = "/"
    /\ t = <<>> \/ t[1] # "/"

\* C23: with a base URL configured, the URL of a request is the base without
\* its trailing slashes, one "/", and the endpoint without its leading slashes,
\* however many slashes either had; with no base URL (None or the empty str)
\* the URL is the endpoint unchanged.
C23_UrlJoinedWithOneSlash ==
    request.method # "none" =>
        IF base_url = PyNone \/ base_url = <<>>
        THEN request.url = request.endpoint
        ELSE \E k \in 0..Len(base_url), m \in 0..Len(request.endpoint) :
                /\ EndsWithSlashes(base_url, SubSeq(base_url, 1, Len(base_url) - k), k)
                /\ BeginsWithSlashes(request.endpoint,
                                     SubSeq(request.endpoint, m + 1, Len(request.endpoint)), m)
                /\ request.url = SubSeq(base_url, 1, Len(base_url) - k) \o <<"/">>
                                 \o SubSeq(request.endpoint, m + 1, Len(request.endpoint))

\* Two trailing slashes on the base and two leading slashes on the endpoint.
C23_Witness ==
    /\ request.method = "GET"
    /\ base_url = DEFAULT_BASE_URL \o <<"/", "/">>
    /\ request.endpoint = <<"/", "/", "api">>
    /\ request.url = <<"https:", "/", "/", "skoda-selvbetjeningsapi.renosyd.dk", "/", "api">>

----------------------------------------------------------------------------
(* Authentication of the repository's client *)

\* C24: WasteRepository.set_bearer_token(token) completes without error and
\* leaves the client's session with the header Authorization: Bearer <token>.
C24_BearerTokenSet ==
    repo_op.name = "set_bearer_token" =>
        /\ repo_op.result = Returned(PyNone)
        /\ DictGet(session_headers, "Authorization", PyNone) =
              PyStr(Concat(<<Ascii("Bearer ")>>, repo_op.arg[2]))

----------------------------------------------------------------------------
(* Accesses of one cycle to the state file and the display *)

\* The calls of the running cycle to the collaborator method name
CallsOf(name) == { i \in 1..Len(calls) : calls[i][1] = name }

\* C25: within one cycle the state file is written at most once (state.set)
\* and display.show is invoked at most once, whatever the fetch, the rendering
\* and the display call do.
C25_FileAndDisplayOncePerCycle ==
    /\ Cardinality(CallsOf("set")) <= 1
    /\ Cardinality(CallsOf("show")) <= 1

----------------------------------------------------------------------------
(* The log of APIClient.get *)

\* The message that states each outcome of an attempt
OutcomeText(kind) ==
    CASE kind = "success" -> "GET successful"
      [] kind = "Timeout" -> "Request timeout"
      [] kind = "ConnectionError" -> "Connection error"
      [] kind = "HTTPError" -> "HTTP error"
      [] kind = "JSONDecodeError" -> "Invalid JSON response from"
      [] kind = "Exception" -> "Unexpected error"

\* The records that state the outcome of an attempt, the records that announce
\* a retry, and the record of the call, in the order logged
OutcomeRecords ==
    SelectSeq(client_log,
              LAMBDA r : r.text \in { OutcomeText(kind) : kind \in FailureKinds \cup {"success"} })

RetryRecords == SelectSeq(client_log, LAMBDA r : r.text = "Retry")

CallRecords == SelectSeq(client_log, LAMBDA r : r.text = "GET request to")

\* The records logged for attempt i: the record of the call, the record that
\* announced the attempt as a retry, and the record of its outcome
RecordsOfAttempt(i) ==
    { CallRecords[j] : j \in 1..Len(CallRecords) }
    \cup (IF i >= 2 /\ i - 1 <= Len(RetryRecords) THEN { RetryRecords[i - 1] } ELSE {})
    \cup (IF i <= Len(OutcomeRecords) THEN { OutcomeRecords[i] } ELSE {})

ErrorLogged == \E j \in 1..Len(client_log) : client_log[j].level = "error"

\* C27: every attempt of get() is logged, the records of each attempt carry
\* the URL, the number of the attempt (for a retry, at least its retry number)
\* and its outcome, and a call that returned None has logged an error record.
C27_AttemptsLoggedWithUrlNumberOutcome ==
    request.method = "GET" =>
        /\ \A i \in 1..Len(outcomes) :
              /\ \E r \in RecordsOfAttempt(i) : r.url = request.url
              /\ \E r \in RecordsOfAttempt(i) :
                    \/ r.text # "Retry" /\ r.number = PyInt(i)
                    \/ r.text = "Retry" /\ r.number = PyInt(i - 1)
              /\ \E r \in RecordsOfAttempt(i) : r.text = OutcomeText(outcomes[i].kind)
        /\ (get_pc = "done" /\ ReturnedNone) => ErrorLogged

\* C27, amended: every call logs "GET request to <url>" once and every attempt
\* logs one record for its outcome, at level info for a success and error for
\* a failure.  That record carries the URL unless the failure is an unexpected
\* error, whose record carries only the error; it carries the attempt number
\* only for a timeout or a connection error.  Every attempt after the first is
\* preceded by a record with its retry number and the URL.  A call that ended
\* without a successful attempt returned None and has logged an error record;
\* a call whose successful attempt decoded the body null returns None as well,
\* with no error record of that attempt.
C27_AttemptsLogged ==
    request.method = "GET" =>
        /\ Len(CallRecords) = 1
        /\ CallRecords[1].url = request.url
        /\ Len(OutcomeRecords) = Len(outcomes)
        /\ \A i \in 1..Len(outcomes) :
              LET r == OutcomeRecords[i]
                  kind == outcomes[i].kind
              IN  /\ r.text = OutcomeText(kind)
                  /\ r.level = IF kind = "success" THEN "info" ELSE "error"
                  /\ r.url = IF kind = "Exception" THEN Unset ELSE request.url
                  /\ r.number = IF kind \in {"Timeout", "ConnectionError"} THEN PyInt(i) ELSE Unset
                  /\ i >= 2 => /\ Len(RetryRecords) >= i - 1
                               /\ RetryRecords[i - 1].number = PyInt(i - 1)
                               /\ RetryRecords[i - 1].url = request.url
        /\ (get_pc = "done" /\ outcomes[Len(outcomes)].kind # "success") =>
              /\ ReturnedNone
              /\ ErrorLogged
              /\ client_log[Len(client_log)].level = "error"
        /\ (get_pc = "done" /\ outcomes[Len(outcomes)].kind = "success") =>
              client_log[Len(client_log)].level = "info"

\* A timeout, then an HTTP error status on the retry.
C27_Witness ==
    /\ request.method = "GET"
    /\ get_pc = "done"
    /\ ReturnedNone
    /\ Len(outcomes) = 2
    /\ outcomes[1].kind = "Timeout"
    /\ outcomes[2].kind = "HTTPError"
    /\ Len(client_log) = 5
    /\ client_log[3] = LogRecord("error", "Request timeout", request.url, PyInt(1), Unset)
    /\ client_log[4].text = "Retry"
    /\ client_log[5].number = Unset

----------------------------------------------------------------------------
(* The cycles of the main loop *)

\* An update_display() call is between its start and its end.
InCycle ==
    app_pc \in {"starting", "idle", "fetch", "compare", "title_and_date", "set_border",
                "show", "set"}

\* C26: cycles never overlap.  main() runs one cycle at startup and then at
\* most one cycle per hourly trigger; at most one cycle is running at any time,
\* a cycle runs only inside the update_display call of the loop, and while the
\* loop is at run_pending or sleeping the last cycle has ended (its fetch and
\* its access to the state file and the display are over).
C26_CyclesNeverOverlap ==
    /\ main_loop.running \in {0, 1}
    /\ main_loop.updates <= 1 + main_loop.triggers
    /\ main_loop.pc \in {"initial_update", "update", "run_pending", "sleep"} =>
          main_loop.updates >= 1
    /\ InCycle => /\ main_loop.running = 1
                  /\ main_loop.pc \in {"initial_update", "update"}
    /\ main_loop.pc \in {"start", "run_pending", "sleep"} =>
          /\ main_loop.running = 0
          /\ app_pc \in {"no_app", "done", "raised", "config_error", "init_error"}
    /\ cycles <= main_loop.updates

\* The job runs for the second hour that passed; an hour that passed during
\* the first run of the job started no cycle of its own.
C26_Witness ==
    /\ main_loop.pc = "update"
    /\ main_loop.triggers = 2
    /\ main_loop.updates = 2
    /\ main_loop.running = 1
    /\ app_pc = "show"
    /\ cycles = 2

----------------------------------------------------------------------------
(* Entries whose date could not be parsed *)

\* The element of the response that entry j of schedule i was parsed from
ItemOf(i, j) == DictGet(response[2][i], "planlagtetømninger", PyList(<<>>))[2][j]

\* The "dato" of the element is missing, null, or not a timestamp.
FellBack(i, j) == fromisoformat(DictGet(ItemOf(i, j), "dato", EmptyStr)).kind = "raise"

\* C28: every entry from_dict produced has a datetime; an entry whose "dato"
\* is missing or unparsable has the current time, and so is eligible: its date
\* is not before the date get_next_collection compares with, and a schedule
\* holding such an entry has a next collection.
C28_FallbackIsNowAndEligible ==
    /\ IsList(schedules) =>
          \A i \in 1..Len(schedules[2]) :
              \A j \in 1..Len(schedules[2][i][2].planlagtetoemninger) :
                  LET entry == schedules[2][i][2].planlagtetoemninger[j]
                  IN  /\ entry[2].dato[1] = "datetime"
                      /\ FellBack(i, j) =>
                            /\ entry[2].dato = clock.local
                            /\ DateOf(entry) >= clock.utc[2].day
    /\ (GotNext /\ \E j \in 1..Len(Entries) : FellBack(repo_op.arg[2], j)) =>
          repo_op.result # Returned(PyNone)

----------------------------------------------------------------------------
(* The joined fraction names *)

GotFractionsStr == repo_op.name = "get_fractions_str"

\* The fraction list of the entry get_fractions_str was called on
JoinedEntry == schedules[2][repo_op.arg[1][2]][2].planlagtetoemninger[repo_op.arg[2][2]]

\* C29: get_fractions_str returns the names joined with ", " in the order
\* received, duplicates kept; the empty list gives the empty str and a single
\* name gives that name.
C29_FractionsJoined ==
    GotFractionsStr =>
        LET names == JoinedEntry[2].fraktioner[2]
        IN  /\ repo_op.result = Returned(JoinedNames(names))
            /\ names = <<>> => repo_op.result.value = PyStr(<<>>)
            /\ Len(names) = 1 => repo_op.result.value = names[1]
            /\ names = <<Restaffald, Papir>> =>
                  repo_op.result.value = PyStr(<<Ascii("Restaffald, Papir")>>)
            /\ names = <<Papir, Glas, Papir>> =>
                  repo_op.result.value =
                      PyStr(<<Ascii("Papir, Glas & d"), Char(229), Ascii("ser, Papir")>>)

\* Three names, one of them twice.
C29_Witness ==
    /\ GotFractionsStr
    /\ JoinedEntry[2].fraktioner[2] = <<Papir, Glas, Papir>>
    /\ repo_op.result.value = PyStr(<<Ascii("Papir, Glas & d"), Char(229), Ascii("ser, Papir")>>)

----------------------------------------------------------------------------
(* What replaces the stored snapshot *)

RenderCalls == {"title_and_date", "set_border", "show"}

\* A new StateManager is built, which reads the file instead of keeping a value.
Reloads == app_pc \in {"done", "raised"} /\ app_pc' = "idle"

\* C30: the value stored in memory under "last_display" is replaced only by
\* state.set with a snapshot whose image display.show has shown in the same
\* cycle, and that image is then on the display.  When the rendering or
\* display.show raised for a snapshot, state.set is not called with it in that
\* cycle and the stored value differs from it when the cycle ends; and a
\* comparison of a snapshot that differs from the stored value starts the
\* redraw.
C30_StoredOnlyAfterShown ==
    [][/\ (StoredLastDisplay' # StoredLastDisplay /\ ~Reloads) =>
             /\ calls' = Append(calls, <<"set", StoredLastDisplay', calls'[Len(calls')][3]>>)
             /\ calls[Len(calls)] = <<"show", StoredLastDisplay', "ok">>
             /\ StoredLastDisplay' = current_state.snapshot
             /\ display_image = <<current_state.title, current_state.date>>
       /\ \A i \in 1..Len(calls') :
             (calls'[i][1] \in RenderCalls /\ calls'[i][3] = "raise") =>
                 /\ \A j \in 1..Len(calls') :
                       ~(calls'[j][1] = "set" /\ calls'[j][2] = calls'[i][2])
                 /\ StoredLastDisplay' # calls'[i][2]
       /\ (app_pc = "compare" /\ IsDict(_state) /\ StoredLastDisplay # current_state.snapshot) =>
             /\ app_pc' = "title_and_date"
             /\ calls' = Append(calls, <<"has_changed", current_state.snapshot, "True">>)]_vars

\* display.show raised for the Success snapshot; the cycle ended with the error
\* snapshot shown and stored.
C30_Witness ==
    /\ app_pc = "done"
    /\ app_mode = "except"
    /\ \E i \in 1..Len(calls) :
          /\ calls[i][1] = "show"
          /\ calls[i][3] = "raise"
          /\ Status(calls[i][2]) = Text("success")
          /\ StoredLastDisplay # calls[i][2]
    /\ Status(StoredLastDisplay) = Text("error")
    /\ StoredLastDisplay = current_state.snapshot

----------------------------------------------------------------------------
(* The two orchestrators *)

\* str(e) of the exceptions a cycle can meet
Messages ==
    { "can't compare offset-naive and offset-aware datetimes",
      "'list' object has no attribute 'get'" } \cup { pc \o " failed" : pc \in RenderCalls }

\* The message of an error snapshot
MessageOf(snap) == DictGet(snap, "message", Unset)[2][1][2]

\* C37: the orchestrator of main.py and the one of core/app.py are equivalent
\* per cycle.  At every point of a cycle of either of them, for the same
\* repository result, clock and stored state, the code of both computes the
\* same snapshot with the same title and date text (or meets the same
\* exception), the same error snapshot for the same exception, compares and
\* stores under the same key, and makes the same next call after a comparison
\* and after each renderer, display and state call; the snapshot the running
\* cycle handles is the one both compute.
C37_OrchestratorsEquivalent ==
    /\ app_pc = "fetch" =>
          \A response_data \in AppResponses :
             LET r == get_schedule(response_data, AppClock).result.value
             IN  Main_Computed(r, AppClock) = Computed(r, AppClock)
    /\ (app_pc = "compare" /\ app_mode = "try") =>
          /\ Returned(current_state) = Computed(calls[1][2], AppClock)
          /\ Returned(current_state) = Main_Computed(calls[1][2], AppClock)
    /\ (app_pc = "compare" /\ app_mode = "except") =>
          /\ MessageOf(current_state.snapshot) \in Messages
          /\ current_state = Handled(MessageOf(current_state.snapshot), today)
          /\ current_state = Main_Handled(MessageOf(current_state.snapshot), today)
    /\ app_pc \in {"fetch", "compare"} \cup RenderCalls =>
          \A message \in Messages : Main_Handled(message, today) = Handled(message, today)
    /\ app_pc = "compare" =>
          /\ \A changed \in BOOLEAN : Main_AfterCompare(changed) = AfterCompare(changed)
          /\ Main_last_display = STATE_LAST_DISPLAY
    /\ app_pc \in UpdateCalls =>
          /\ Main_AfterCall(app_pc) = AfterCall(app_pc)
          /\ Main_last_display = STATE_LAST_DISPLAY

\* A cycle of main.py's orchestrator showed and stored the Success snapshot.
C37_Witness ==
    /\ config.entry = "main.py"
    /\ config.nummer = Text("013165")
    /\ app_pc = "done"
    /\ app_mode = "try"
    /\ Len(calls) = 6
    /\ calls[6] = <<"set", current_state.snapshot, "ok">>
    /\ Status(current_state.snapshot) = Text("success")
    /\ StoredLastDisplay = current_state.snapshot
    /\ display_image = <<current_state.title, current_state.date>>

----------------------------------------------------------------------------
(* Change detection across instances and processes *)

\* What the state file holds under "last_display", if it holds a JSON object.
PersistedLastDisplay ==
    IF state_file.kind = "json" /\ IsDict(JsonLoad(state_file.doc))
    THEN DictGet(JsonLoad(state_file.doc), STATE_LAST_DISPLAY, Missing)
    ELSE Missing

\* C31: change detection survives a restart.  Every cycle of the main loop
\* runs on a new InkyPiApp whose StateManager holds what the state file holds;
\* a state.set whose write succeeded leaves its snapshot in the file; and a
\* comparison of a snapshot equal to the one in the file (persisted by an
\* earlier cycle or an earlier process) ends the cycle with no renderer,
\* display or state.set call for it, leaving display, file and memory as they
\* were: when it is the snapshot the try block computed, the whole cycle made
\* no such call.
C31_ChangeDetectionSurvivesRestart ==
    [][/\ (app_pc = "starting" /\ app_pc' = "idle") =>
             /\ StoredLastDisplay' = PersistedLastDisplay'
             /\ UNCHANGED state_file
       /\ (app_pc = "set" /\ calls' = Append(calls, <<"set", current_state.snapshot, "ok">>)) =>
             PyEq(PersistedLastDisplay', current_state.snapshot)
       /\ (/\ app_pc = "compare"
           /\ calls' # calls
           /\ PyEq(PersistedLastDisplay, current_state.snapshot)) =>
             /\ app_pc' = "done"
             /\ calls' = Append(calls, <<"has_changed", current_state.snapshot, "False">>)
             /\ \A i \in 1..Len(calls') : calls'[i][2] # current_state.snapshot
                                             \/ calls'[i][1] \notin UpdateCalls
             /\ app_mode = "try" => Len(calls') = 2
             /\ UNCHANGED <<_state, state_file, display_image>>]_vars

\* The second cycle of the process computed the snapshot the first one had
\* shown and persisted, and ended after the comparison.
C31_Witness ==
    /\ main_loop.pc = "update"
    /\ main_loop.updates = 2
    /\ app_pc = "done"
    /\ app_mode = "try"
    /\ Len(calls) = 2
    /\ calls[2] = <<"has_changed", current_state.snapshot, "False">>
    /\ Status(current_state.snapshot) = Text("success")
    /\ PersistedLastDisplay = current_state.snapshot
    /\ display_image = <<current_state.title, current_state.date>>

----------------------------------------------------------------------------
(* Failed writes of the state file *)

\* C32: set and clear never raise; when writing the state file fails the error
\* is logged, the in-memory map is updated all the same and the file keeps its
\* previous content, so that a new StateManager on the file sees the old
\* content.
C32_FailedWriteKeepsFile ==
    [][(sm_ops' = sm_ops + 1 /\ sm_op'.name \in {"set", "clear"}) =>
          /\ sm_op'.result.kind = "return"
          /\ sm_op'.write # "ok" =>
                /\ \E i \in 1..Len(sm_op'.log) : sm_op'.log[i] = "error"
                /\ _state' = IF sm_op'.name = "clear" THEN EmptyDict
                              ELSE DictSet(_state, sm_op'.key, sm_op'.value)
                /\ state_file' = state_file
                /\ _load_state(state_file') = _load_state(state_file)]_vars

----------------------------------------------------------------------------
(* The shape of the in-memory state *)

\* C33: after construction and after every operation the in-memory state is a
\* key-to-value mapping, whatever the state file held (nothing, unparsable
\* text, a JSON object, or valid JSON that is not an object), and get, set and
\* has_changed do not fail.
C33_StateIsAlwaysAMapping ==
    /\ IsDict(_state)
    /\ sm_op.name \in {"get", "set", "has_changed"} => sm_op.result.kind = "return"

----------------------------------------------------------------------------
(* Entries with and without a time zone *)

\* C34: get_next_collection returns without raising for every list of entries
\* the parser can produce, lists that mix entries dated from a
\* timezone-qualified string with entries dated by the fallback included.
C34_NextCollectionNeverRaises == GotNext => repo_op.result.kind = "return"

----------------------------------------------------------------------------
(* Termination of get() *)

Attempts == { i \in 1..Len(events) : events[i][1] = "get" }

Sleeps == { i \in 1..Len(events) : events[i][1] = "sleep" }

\* The counts of a call, running or ended
GetWithinBounds ==
    /\ Cardinality(Attempts) <= max_retries + 1
    /\ Cardinality(Sleeps) <= max_retries
    /\ Cardinality(Attempts) = Len(outcomes)
    /\ get_pc = "done" => /\ Cardinality(Attempts) >= 1
                          /\ get_result.kind = "return"

\* C36: every call to get() terminates.  For every max_retries >= 0 and every
\* sequence of attempt outcomes a call that was made ends, it returns, and it
\* has then made at least one and at most max_retries+1 attempts and at most
\* max_retries sleeps.
C36_GetTerminates ==
    /\ []GetWithinBounds
    /\ (get_pc # "idle") ~> (get_pc = "done")

\* A call that used every attempt it had and slept before each retry has ended.
C36_Witness ==
    /\ get_pc = "done"
    /\ max_retries = 2
    /\ Cardinality(Attempts) = 3
    /\ Cardinality(Sleeps) = 2
    /\ get_result.kind = "return"

----------------------------------------------------------------------------
(* Failing updates and the end of the process *)

Exited == main_loop.pc \in {"exit_0", "exit_1"}

\* An update_display call is about to return after its InkyPiApp() or run() raised.
UpdateFailed ==
    /\ main_loop.pc \in {"initial_update", "update"}
    /\ app_pc \in {"raised", "config_error", "init_error"}

\* C35: an exception raised by an update is caught and logged by
\* update_display and does not stop the main loop: main() goes on to the loop
\* (after the first update) or to its sleep (after a run of the job), and the
\* job still runs when its next hour has passed.  The process ends only by a
\* keyboard interrupt (exit status 0) or by an error raised by run_pending or
\* sleep themselves (exit status 1).
C35_FailedUpdateDoesNotStopLoop ==
    /\ [][/\ (UpdateFailed /\ main_loop' # main_loop /\ ~MainInterrupt /\ ~Tick) =>
                /\ main_loop'.pc = IF main_loop.pc = "initial_update" THEN "run_pending"
                                    ELSE "sleep"
                /\ main_loop'.logged = main_loop.logged + 1
          /\ (Exited' /\ ~Exited) => (MainInterrupt \/ MainLoopError)
          /\ Exited => UNCHANGED vars]_vars
    /\ (main_loop.logged > 0 /\ main_loop.due /\ main_loop.pc \in {"run_pending", "sleep"})
          ~> (main_loop.pc = "update" \/ Exited)

\* The first update raised and was logged; the job runs a cycle after the
\* first hour.
C35_Witness ==
    /\ main_loop.pc = "update"
    /\ main_loop.logged = 1
    /\ main_loop.updates = 2
    /\ main_loop.triggers = 1
    /\ app_pc = "compare"
    /\ cycles = 2

----------------------------------------------------------------------------
(* The collections of one day *)

\* C39: get_collections_for_date(target) returns exactly the entries dated on
\* the calendar day of target, in their original order (the k-th entry returned
\* is the k-th such entry of the schedule), the empty list when there is none,
\* and leaves the schedule as it was.
C39_CollectionsForDate ==
    [][repo_op'.name = "get_collections_for_date" =>
          LET entries == schedules[2][repo_op'.arg[1][2]][2].planlagtetoemninger
              target == repo_op'.arg[2]
              hits == { j \in 1..Len(entries) : entries[j][2].dato[2].day = target[2].day }
              got == repo_op'.result.value
          IN  /\ repo_op'.result.kind = "return"
              /\ Len(got) = Cardinality(hits)
              /\ \A k \in 1..Len(got) :
                    got[k] = entries[CHOOSE j \in hits :
                                        Cardinality({ m \in hits : m < j }) = k - 1]
              /\ hits = {} => got = <<>>
              /\ schedules' = schedules]_vars

\* Both entries of a schedule fall on the target day, at different hours and
\* the later one first: they are returned in the order of the schedule.
C39_Witness ==
    /\ repo_op.name = "get_collections_for_date"
    /\ LET entries == schedules[2][repo_op.arg[1][2]][2].planlagtetoemninger
       IN  /\ Len(entries) = 2
           /\ entries[1][2].dato[2].hour > entries[2][2].dato[2].hour
           /\ repo_op.result.value = <<entries[1], entries[2]>>

----------------------------------------------------------------------------
(* The lines of a split text *)

\* C40: _split_text(text, max_length) returns [text] when text has at most
\* max_length characters, and otherwise several lines of at most max_length
\* characters each.
C40_LinesWithinMaxLength ==
    layout_op.pc = "done" =>
        LET lines == layout_op.result
        IN  IF Len(layout_op.text) <= layout_op.max_length
            THEN lines = <<layout_op.text>>
            ELSE /\ Len(lines) > 1
                 /\ \A i \in 1..Len(lines) : Len(lines[i]) <= layout_op.max_length

----------------------------------------------------------------------------
(* What set and get leave alone *)

\* The value the state file holds for key k
StoredInFile(file, k) ==
    IF file.kind = "json" /\ IsDict(JsonLoad(file.doc))
    THEN DictGet(JsonLoad(file.doc), k, Missing)
    ELSE Missing

\* C38: set(key, value) changes only the entry for key, every other key keeps
\* its value in memory and in the file; get(key, default) returns the stored
\* value when key is present and default otherwise, and changes nothing.
C38_SetAndGetFrame ==
    [][/\ (sm_ops' = sm_ops + 1 /\ sm_op'.name = "set") =>
             /\ sm_op'.result.kind = "return"
             /\ IsDict(_state) /\ IsDict(_state')
             /\ \A k \in Keys \ {sm_op'.key} :
                    /\ DictGet(_state', k, Missing) = DictGet(_state, k, Missing)
                    /\ StoredInFile(state_file', k) = StoredInFile(state_file, k)
       /\ (sm_ops' = sm_ops + 1 /\ sm_op'.name = "get") =>
             /\ IsDict(_state)
             /\ sm_op'.result = Returned(DictGet(_state, sm_op'.key, sm_op'.value))
             /\ UNCHANGED <<_state, state_file>>]_vars

====
